---- MODULE Spec2Model ----
(***************************************************************************)
(* Model of the tiny-ledger store (package store: LedgerStore) and of the  *)
(* records it keeps (package models).  One process per concurrent caller;  *)
(* every statement executed under the store's RWMutex is one step, so the  *)
(* intermediate states of a write are states of the model.                 *)
(***************************************************************************)
EXTENDS Integers, Sequences, FiniteSets, TLC

(* ------------------------------ bounds -------------------------------- *)

\* write calls (AddTransaction, AddTransactionWithTime) started in a run of Spec
MaxCalls == 3
MaxAccountCalls == 2
\* write calls started in a run of SpecQuery (records seeded before querying)
MaxSeed == 3
\* largest pageSize a caller passes
MaxPageSize == 3
\* last instant a record or a query of SpecQuery names
MaxTime == 3
\* machine width of Go's int, scaled down from 64 bits so that every int is enumerable
IntBits == 5

Procs == {"p1", "p2"}
UserIds == {"u1", "u2"}

\* strings of ten, fifty and five hundred characters
Ten == "aaaaaaaaaa"
Fifty == Ten \o Ten \o Ten \o Ten \o Ten
FiveHundred == Fifty \o Fifty \o Fifty \o Fifty \o Fifty
                 \o Fifty \o Fifty \o Fifty \o Fifty \o Fifty

\* the user ids the callers of the service pass: the empty one, one of two, of
\* three, of fifty and of fifty-one characters, and one with a character
\* outside the class
ServiceUserIds == {"", "ab", "bob", "user@invalid", Fifty, Fifty \o "a"}

\* the characters of each of these user ids
Runes ==
    [userId \in ServiceUserIds |->
        CASE userId = "" -> <<>>
          [] userId = "ab" -> <<"a", "b">>
          [] userId = "bob" -> <<"b", "o", "b">>
          [] userId = "user@invalid" ->
                <<"u", "s", "e", "r", "@", "i", "n", "v", "a", "l", "i", "d">>
          [] OTHER -> [i \in 1..Len(userId) |-> "a"]]

\* the character class [a-zA-Z0-9_.-]
UserIdChars ==
    {"a", "b", "c", "d", "e", "f", "g", "h", "i", "j", "k", "l", "m",
     "n", "o", "p", "q", "r", "s", "t", "u", "v", "w", "x", "y", "z",
     "A", "B", "C", "D", "E", "F", "G", "H", "I", "J", "K", "L", "M",
     "N", "O", "P", "Q", "R", "S", "T", "U", "V", "W", "X", "Y", "Z",
     "0", "1", "2", "3", "4", "5", "6", "7", "8", "9", "_", ".", "-"}

\* const maxAmount = 1000000.0
maxAmount == 1000000

\* the other arguments the callers of the service pass
ServiceAmounts == {-1, 0, 1, maxAmount, maxAmount + 1}
ServiceTypes == {"deposit", "withdrawal", "invalid_type"}
ServiceDescriptions == {"memo", FiveHundred, FiveHundred \o "a"}
Amounts == {1, 2}
Descriptions == {"memo"}
\* instants of the clock in Spec
Times == {1, 2}
\* instants of the clock in SpecQuery
QueryTimes == 1..MaxTime

(* ------------------------------ models -------------------------------- *)

Deposit == "deposit"
Withdrawal == "withdrawal"
TransactionType == {Deposit, Withdrawal}

\* the zero time.Time, before every instant of the clock
ZeroTime == 0

\* models.TransactionRecord{}
ZeroRecord ==
    [ID |-> 0, Amount |-> 0, Type |-> "", Timestamp |-> ZeroTime, Description |-> ""]

\* time.Time.Before / time.Time.After
Before(t, u) == t < u
After(t, u) == t > u

\* models.NewTransactionRecord: uuid.New() is id, time.Now() is now
NewTransactionRecordWithoutDescription(id, now, transactionType, amount, description) ==
    [ID |-> id, Amount |-> amount, Type |-> transactionType,
     Timestamp |-> now, Description |-> ""]
NewTransactionRecord(id, now, transactionType, amount, description) ==
    [ID |-> id, Amount |-> amount, Type |-> transactionType,
     Timestamp |-> now, Description |-> description]

(* ------------------------------ machine int --------------------------- *)

MaxInt == 2 ^ (IntBits - 1) - 1
MinInt == -(2 ^ (IntBits - 1))

\* two's complement wrap-around of Go's int arithmetic
WrapInt(x) == ((x - MinInt) % (2 ^ IntBits)) + MinInt
IntAdd(x, y) == WrapInt(x + y)
IntSub(x, y) == WrapInt(x - y)
IntMul(x, y) == WrapInt(x * y)

(* ------------------------------ sorting ------------------------------- *)

\* the less function handed to sort.SliceStable
LessOrEqualByTimestamp(s, i, j) == s[i].Timestamp <= s[j].Timestamp
LessByTimestamp(s, i, j) == Before(s[i].Timestamp, s[j].Timestamp)

SwapOverwriting(s, i, j) == [s EXCEPT ![i] = s[j]]
Swap(s, i, j) == [s EXCEPT ![i] = s[j], ![j] = s[i]]

\* inner loop of the insertion sort: for j := i; j > a && less(j, j-1); j--
RECURSIVE SinkLeft(_, _)
SinkLeft(s, j) ==
    IF j > 1 /\ LessByTimestamp(s, j, j - 1)
    THEN SinkLeft(Swap(s, j, j - 1), j - 1)
    ELSE s

RECURSIVE InsertionSortFrom(_, _)
InsertionSortFrom(s, i) ==
    IF i > Len(s) THEN s ELSE InsertionSortFrom(SinkLeft(s, i), i + 1)

\* sort.SliceStable(ledger.transactions, less): a stable insertion sort
\* (the library sorts blocks of up to 20 elements by insertion)
SliceStableIdentity(s) == s
SliceStable(s) == InsertionSortFrom(s, 2)

\* sort.Search(n, f): the smallest i in 0..n with f(i), by bisection;
\* f is given as a function on 0..n-1
RECURSIVE SearchLoop(_, _, _)
SearchLoop(i, j, f) ==
    IF i < j
    THEN LET h == (i + j) \div 2
         IN  IF ~f[h] THEN SearchLoop(h + 1, j, f) ELSE SearchLoop(i, h, f)
    ELSE i

SortSearch(n, f) == SearchLoop(0, n, f)

(* ------------------------------ state --------------------------------- *)

VARIABLES
    users,      \* LedgerStore.users: userId -> userLedger, defined on the ids seen
    mu,         \* LedgerStore.mu: the callers holding it exclusively / shared
    pc,         \* each caller's position in the method it runs
    args,       \* each caller's arguments
    tx,         \* each caller's local tx (AddTransaction)
    ret,        \* each caller's return value, once computed
    clock,      \* the last reading of time.Now()
    nextId,     \* the next value of uuid.New()
    ncalls,     \* write calls started so far
    pre,        \* history: the account as it was when the caller took the lock
    okCalls,    \* history: per account, the write calls that returned no error
    usersV2     \* LedgerStoreV2.users: per account the tree and the balance

vars == <<users, mu, pc, args, tx, ret, clock, nextId, ncalls, pre, okCalls, usersV2>>

\* &userLedger{}
EmptyLedger == [transactions |-> <<>>, balance |-> 0]

NoArgs == [op |-> "none"]
NoRet == [op |-> "none"]

\* a nil *time.Time, and a pointer to t
NilTime == <<>>
TimePtr(t) == <<t>>

ErrNil == "nil"
ErrInsufficientFunds == "insufficient funds"

\* what a reader can see of an account: an unknown account has nothing
View(us, userId) ==
    IF userId \in DOMAIN us THEN us[userId] ELSE EmptyLedger

\* the users field of a LedgerStoreV2 that no code has assigned: a nil map
NilUsers == [nil |-> TRUE, entries |-> <<>>]

\* NewLedgerStore; no LedgerStoreV2 has been given a map (NewLedgerStoreV2
\* returns a *LedgerStore)
Init ==
    /\ users = <<>>
    /\ mu = [writers |-> {}, readers |-> {}]
    /\ pc = [p \in Procs |-> "idle"]
    /\ args = [p \in Procs |-> NoArgs]
    /\ tx = [p \in Procs |-> ZeroRecord]
    /\ ret = [p \in Procs |-> NoRet]
    /\ clock = 1
    /\ nextId = 1
    /\ ncalls = 0
    /\ pre = [p \in Procs |-> EmptyLedger]
    /\ okCalls = [u \in UserIds \cup ServiceUserIds |-> {}]
    /\ usersV2 = NilUsers

(* ------------------------------ sync.RWMutex -------------------------- *)

\* s.mu.Lock() returns once nobody holds the mutex
CanLockIgnoringWriters == mu.readers = {}
CanLock == mu.writers = {} /\ mu.readers = {}

\* s.mu.RLock() returns once no writer holds the mutex
CanRLockBesideWriters == TRUE
CanRLock == mu.writers = {}

LockWithoutHold(p) == mu
Lock(p) == [mu EXCEPT !.writers = @ \cup {p}]
Unlock(p) == [mu EXCEPT !.writers = @ \ {p}]
RLock(p) == [mu EXCEPT !.readers = @ \cup {p}]
RUnlock(p) == [mu EXCEPT !.readers = @ \ {p}]

(* ------------------------------ statements ---------------------------- *)

\* ledger, exists := s.users[userId]; if !exists { s.users[userId] = &userLedger{} }
LookupOrCreateAlone(us, userId) == (userId :> View(us, userId))
LookupOrCreate(us, userId) ==
    IF userId \in DOMAIN us THEN us ELSE us @@ (userId :> EmptyLedger)

\* txType == models.Withdrawal && ledger.balance < amount
InsufficientFundsOffByOne(balance, txType, amount) ==
    txType = Withdrawal /\ balance + 1 < amount
InsufficientFundsAtBalance(balance, txType, amount) ==
    txType = Withdrawal /\ balance <= amount
InsufficientFunds(balance, txType, amount) ==
    txType = Withdrawal /\ balance < amount

\* AddTransaction: if txType == Deposit { balance += amount } else { balance -= amount }
AdjustBalanceAlwaysAdds(balance, txType, amount) == balance + amount
AdjustBalance(balance, txType, amount) ==
    IF txType = Deposit THEN balance + amount ELSE balance - amount

\* AddTransactionWithTime: if Deposit { += } else if Withdrawal { -= }
AdjustBalanceWithTimeDepositOnly(balance, txType, amount) ==
    IF txType = Deposit THEN balance + amount ELSE balance
AdjustBalanceWithTime(balance, txType, amount) ==
    IF txType = Deposit THEN balance + amount
    ELSE IF txType = Withdrawal THEN balance - amount
    ELSE balance

(* ------------------------------ AddTransaction ------------------------ *)

\* s.mu.Lock(); defer s.mu.Unlock()
AddTransactionLock(p, userId, txType, amount, description) ==
    /\ pc[p] = "idle"
    /\ CanLock
    /\ mu' = Lock(p)
    /\ pc' = [pc EXCEPT ![p] = "at_lookup"]
    /\ args' = [args EXCEPT ![p] =
                  [op |-> "AddTransaction", userId |-> userId, txType |-> txType,
                   amount |-> amount, description |-> description]]
    /\ pre' = [pre EXCEPT ![p] = View(users, userId)]
    /\ ncalls' = ncalls + 1
    /\ UNCHANGED <<users, tx, ret, clock, nextId, okCalls, usersV2>>

AddTransactionLookup(p) ==
    /\ pc[p] = "at_lookup"
    /\ users' = LookupOrCreate(users, args[p].userId)
    /\ pc' = [pc EXCEPT ![p] = "at_check"]
    /\ UNCHANGED <<mu, args, tx, ret, clock, nextId, ncalls, pre, okCalls, usersV2>>

\* the insufficient-funds return, or tx := models.NewTransactionRecord(...)
\* with now the reading of time.Now()
AddTransactionCheck(p, now) ==
    /\ pc[p] = "at_check"
    /\ LET a == args[p]
       IN  IF InsufficientFunds(users[a.userId].balance, a.txType, a.amount)
           THEN /\ ret' = [ret EXCEPT ![p] =
                             [op |-> "AddTransaction", tx |-> ZeroRecord,
                              err |-> ErrInsufficientFunds]]
                /\ pc' = [pc EXCEPT ![p] = "at_ret"]
                /\ UNCHANGED <<tx, clock, nextId>>
           ELSE /\ now >= clock
                /\ tx' = [tx EXCEPT ![p] =
                            NewTransactionRecord(nextId, now, a.txType, a.amount,
                                                 a.description)]
                /\ clock' = now
                /\ nextId' = nextId + 1
                /\ pc' = [pc EXCEPT ![p] = "at_balance"]
                /\ UNCHANGED ret
    /\ UNCHANGED <<users, mu, args, ncalls, pre, okCalls, usersV2>>

AddTransactionBalance(p) ==
    /\ pc[p] = "at_balance"
    /\ LET a == args[p]
       IN  users' = [users EXCEPT ![a.userId].balance =
                       AdjustBalance(@, a.txType, a.amount)]
    /\ pc' = [pc EXCEPT ![p] = "at_append"]
    /\ UNCHANGED <<mu, args, tx, ret, clock, nextId, ncalls, pre, okCalls, usersV2>>

\* ledger.transactions = append(ledger.transactions, tx)
AddTransactionAppend(p) ==
    /\ pc[p] = "at_append"
    /\ users' = [users EXCEPT ![args[p].userId].transactions = Append(@, tx[p])]
    /\ pc' = [pc EXCEPT ![p] = "at_sort"]
    /\ UNCHANGED <<mu, args, tx, ret, clock, nextId, ncalls, pre, okCalls, usersV2>>

\* sort.SliceStable(...); return tx, nil
AddTransactionSort(p) ==
    /\ pc[p] = "at_sort"
    /\ users' = [users EXCEPT ![args[p].userId].transactions = SliceStable(@)]
    /\ ret' = [ret EXCEPT ![p] =
                 [op |-> "AddTransaction", tx |-> tx[p], err |-> ErrNil]]
    /\ pc' = [pc EXCEPT ![p] = "at_ret"]
    /\ UNCHANGED <<mu, args, tx, clock, nextId, ncalls, pre, okCalls, usersV2>>

\* the deferred s.mu.Unlock(), and the caller has the result
AddTransactionReturnHoldingOnError(p) ==
    /\ pc[p] = "at_ret"
    /\ mu' = IF ret[p].err = ErrNil THEN Unlock(p) ELSE mu
    /\ okCalls' =
         IF ret[p].err = ErrNil
         THEN [okCalls EXCEPT ![args[p].userId] = @ \cup
                 {[ID |-> ret[p].tx.ID, Type |-> args[p].txType,
                   Amount |-> args[p].amount, op |-> "AddTransaction"]}]
         ELSE okCalls
    /\ pc' = [pc EXCEPT ![p] = "idle"]
    /\ args' = [args EXCEPT ![p] = NoArgs]
    /\ tx' = [tx EXCEPT ![p] = ZeroRecord]
    /\ ret' = [ret EXCEPT ![p] = NoRet]
    /\ pre' = [pre EXCEPT ![p] = EmptyLedger]
    /\ UNCHANGED <<users, clock, nextId, ncalls, usersV2>>
AddTransactionReturn(p) ==
    /\ pc[p] = "at_ret"
    /\ mu' = Unlock(p)
    /\ okCalls' =
         IF ret[p].err = ErrNil
         THEN [okCalls EXCEPT ![args[p].userId] = @ \cup
                 {[ID |-> ret[p].tx.ID, Type |-> args[p].txType,
                   Amount |-> args[p].amount, op |-> "AddTransaction"]}]
         ELSE okCalls
    /\ pc' = [pc EXCEPT ![p] = "idle"]
    /\ args' = [args EXCEPT ![p] = NoArgs]
    /\ tx' = [tx EXCEPT ![p] = ZeroRecord]
    /\ ret' = [ret EXCEPT ![p] = NoRet]
    /\ pre' = [pre EXCEPT ![p] = EmptyLedger]
    /\ UNCHANGED <<users, clock, nextId, ncalls, usersV2>>

(* ------------------------------ AddTransactionWithTime ---------------- *)

\* the caller's record carries a fresh uuid (uuid.New()) and any timestamp
AddTransactionWithTimeLock(p, userId, txType, amount, timestamp, description) ==
    /\ pc[p] = "idle"
    /\ CanLock
    /\ mu' = Lock(p)
    /\ pc' = [pc EXCEPT ![p] = "wt_lookup"]
    /\ args' = [args EXCEPT ![p] =
                  [op |-> "AddTransactionWithTime", userId |-> userId,
                   tx |-> [ID |-> nextId, Amount |-> amount, Type |-> txType,
                           Timestamp |-> timestamp, Description |-> description]]]
    /\ nextId' = nextId + 1
    /\ pre' = [pre EXCEPT ![p] = View(users, userId)]
    /\ ncalls' = ncalls + 1
    /\ UNCHANGED <<users, tx, ret, clock, okCalls, usersV2>>

AddTransactionWithTimeLookup(p) ==
    /\ pc[p] = "wt_lookup"
    /\ users' = LookupOrCreate(users, args[p].userId)
    /\ pc' = [pc EXCEPT ![p] = "wt_balance"]
    /\ UNCHANGED <<mu, args, tx, ret, clock, nextId, ncalls, pre, okCalls, usersV2>>

AddTransactionWithTimeBalance(p) ==
    /\ pc[p] = "wt_balance"
    /\ LET a == args[p]
       IN  users' = [users EXCEPT ![a.userId].balance =
                       AdjustBalanceWithTime(@, a.tx.Type, a.tx.Amount)]
    /\ pc' = [pc EXCEPT ![p] = "wt_append"]
    /\ UNCHANGED <<mu, args, tx, ret, clock, nextId, ncalls, pre, okCalls, usersV2>>

AddTransactionWithTimeAppend(p) ==
    /\ pc[p] = "wt_append"
    /\ users' = [users EXCEPT ![args[p].userId].transactions = Append(@, args[p].tx)]
    /\ pc' = [pc EXCEPT ![p] = "wt_sort"]
    /\ UNCHANGED <<mu, args, tx, ret, clock, nextId, ncalls, pre, okCalls, usersV2>>

AddTransactionWithTimeSort(p) ==
    /\ pc[p] = "wt_sort"
    /\ users' = [users EXCEPT ![args[p].userId].transactions = SliceStable(@)]
    /\ pc' = [pc EXCEPT ![p] = "wt_ret"]
    /\ UNCHANGED <<mu, args, tx, ret, clock, nextId, ncalls, pre, okCalls, usersV2>>

\* the deferred s.mu.Unlock(); the method returns nothing
AddTransactionWithTimeReturn(p) ==
    /\ pc[p] = "wt_ret"
    /\ mu' = Unlock(p)
    /\ okCalls' = [okCalls EXCEPT ![args[p].userId] = @ \cup
                     {[ID |-> args[p].tx.ID, Type |-> args[p].tx.Type,
                       Amount |-> args[p].tx.Amount, op |-> "AddTransactionWithTime"]}]
    /\ pc' = [pc EXCEPT ![p] = "idle"]
    /\ args' = [args EXCEPT ![p] = NoArgs]
    /\ pre' = [pre EXCEPT ![p] = EmptyLedger]
    /\ UNCHANGED <<users, tx, ret, clock, nextId, ncalls, usersV2>>

(* ------------------------------ GetBalance ---------------------------- *)

\* s.mu.RLock(); defer s.mu.RUnlock()
GetBalanceRLock(p, userId) ==
    /\ pc[p] = "idle"
    /\ CanRLock
    /\ mu' = RLock(p)
    /\ pc' = [pc EXCEPT ![p] = "gb_read"]
    /\ args' = [args EXCEPT ![p] = [op |-> "GetBalance", userId |-> userId]]
    /\ UNCHANGED <<users, tx, ret, clock, nextId, ncalls, pre, okCalls, usersV2>>

\* if !exists { return 0, nil }; return ledger.balance, nil
GetBalanceResult(us, userId) ==
    IF userId \notin DOMAIN us
    THEN [op |-> "GetBalance", balance |-> 0, err |-> ErrNil]
    ELSE [op |-> "GetBalance", balance |-> us[userId].balance, err |-> ErrNil]

GetBalanceReadCreating(p) ==
    /\ pc[p] = "gb_read"
    /\ users' = LookupOrCreate(users, args[p].userId)
    /\ ret' = [ret EXCEPT ![p] = GetBalanceResult(users, args[p].userId)]
    /\ pc' = [pc EXCEPT ![p] = "gb_ret"]
    /\ UNCHANGED <<mu, args, tx, clock, nextId, ncalls, pre, okCalls, usersV2>>
GetBalanceRead(p) ==
    /\ pc[p] = "gb_read"
    /\ ret' = [ret EXCEPT ![p] = GetBalanceResult(users, args[p].userId)]
    /\ pc' = [pc EXCEPT ![p] = "gb_ret"]
    /\ UNCHANGED <<users, mu, args, tx, clock, nextId, ncalls, pre, okCalls, usersV2>>

GetBalanceReturn(p) ==
    /\ pc[p] = "gb_ret"
    /\ mu' = RUnlock(p)
    /\ pc' = [pc EXCEPT ![p] = "idle"]
    /\ args' = [args EXCEPT ![p] = NoArgs]
    /\ ret' = [ret EXCEPT ![p] = NoRet]
    /\ UNCHANGED <<users, tx, clock, nextId, ncalls, pre, okCalls, usersV2>>

(* ------------------------------ GetPaginatedTransactions -------------- *)

\* s.mu.RLock(); defer s.mu.RUnlock()
GetPaginatedTransactionsRLock(p, userId, startTime, endTime, page, pageSize) ==
    /\ pc[p] = "idle"
    /\ CanRLock
    /\ mu' = RLock(p)
    /\ pc' = [pc EXCEPT ![p] = "gp_read"]
    /\ args' = [args EXCEPT ![p] =
                  [op |-> "GetPaginatedTransactions", userId |-> userId,
                   startTime |-> startTime, endTime |-> endTime,
                   page |-> page, pageSize |-> pageSize]]
    /\ UNCHANGED <<users, tx, ret, clock, nextId, ncalls, pre, okCalls, usersV2>>

\* startIdx: sort.Search(n, i => !transactions[i].Timestamp.Before(*startTime))
StartIdx(txs, startTime) ==
    IF startTime = NilTime THEN 0
    ELSE SortSearch(Len(txs),
                    [i \in 0..(Len(txs) - 1) |->
                        ~Before(txs[i + 1].Timestamp, startTime[1])])

\* endIdx: sort.Search(n, i => transactions[i].Timestamp.After(*endTime))
EndIdx(txs, endTime) ==
    IF endTime = NilTime THEN Len(txs)
    ELSE SortSearch(Len(txs),
                    [i \in 0..(Len(txs) - 1) |->
                        After(txs[i + 1].Timestamp, endTime[1])])

\* if page < 1 { page = 1 }
DefensivePageUnchanged(page) == page
DefensivePage(page) == IF page < 1 THEN 1 ELSE page

\* pageStartIdx := startIdx + (page-1)*pageSize, in Go's int
PageStartIdxFromPage(startIdx, page, pageSize) ==
    IntAdd(startIdx, IntMul(page, pageSize))
PageStartIdx(startIdx, page, pageSize) ==
    IntAdd(startIdx, IntMul(IntSub(page, 1), pageSize))

\* a run-time panic (makeslice: len out of range, slice bounds out of range);
\* the deferred RUnlock still runs
Panicked == [op |-> "GetPaginatedTransactions", panicked |-> TRUE]

\* the backing array of a returned slice: the one make (or a slice literal) has
\* just allocated, which nothing else points into; a slice of the ledger's own
\* array from pageStartIdx on would be LedgerArray
NewArray == <<"new">>
LedgerArray(userId, pageStartIdx) == <<"ledger", userId, pageStartIdx>>
PageArray(userId, pageStartIdx) == NewArray

Page(txs, total) ==
    [op |-> "GetPaginatedTransactions", panicked |-> FALSE,
     Transactions |-> txs, TotalCount |-> total, array |-> NewArray]

\* the body of GetPaginatedTransactions, from the map lookup to the return
GetPaginatedTransactionsResult(us, userId, startTime, endTime, page0, pageSize) ==
    IF userId \notin DOMAIN us THEN Page(<<>>, 0)
    ELSE
      LET txs == us[userId].transactions
          n == Len(txs)
          startIdx == StartIdx(txs, startTime)
          endIdx == EndIdx(txs, endTime)
          filteredCount == IntSub(endIdx, startIdx)
          page == DefensivePage(page0)
          pageStartIdx == PageStartIdx(startIdx, page, pageSize)
          pageEndIdx0 == IntAdd(pageStartIdx, pageSize)
      IN  IF pageStartIdx >= endIdx THEN Page(<<>>, filteredCount)
          ELSE
            LET pageEndIdx == IF pageEndIdx0 > endIdx THEN endIdx ELSE pageEndIdx0
            IN  IF pageEndIdx - pageStartIdx < 0 THEN Panicked
                ELSE IF pageStartIdx < 0 \/ pageEndIdx > n THEN Panicked
                ELSE [Page(SubSeq(txs, pageStartIdx + 1, pageEndIdx), filteredCount)
                        EXCEPT !.array = PageArray(userId, pageStartIdx)]

GetPaginatedTransactionsRead(p) ==
    /\ pc[p] = "gp_read"
    /\ LET a == args[p]
       IN  ret' = [ret EXCEPT ![p] =
                     GetPaginatedTransactionsResult(users, a.userId, a.startTime,
                                                    a.endTime, a.page, a.pageSize)]
    /\ pc' = [pc EXCEPT ![p] = "gp_ret"]
    /\ UNCHANGED <<users, mu, args, tx, clock, nextId, ncalls, pre, okCalls, usersV2>>

GetPaginatedTransactionsReturn(p) ==
    /\ pc[p] = "gp_ret"
    /\ mu' = RUnlock(p)
    /\ pc' = [pc EXCEPT ![p] = "idle"]
    /\ args' = [args EXCEPT ![p] = NoArgs]
    /\ ret' = [ret EXCEPT ![p] = NoRet]
    /\ UNCHANGED <<users, tx, clock, nextId, ncalls, pre, okCalls, usersV2>>

\* the return with its deferred RUnlock, the caller keeping the result (as the
\* handler does while it writes the response)
GetPaginatedTransactionsReturnKept(p) ==
    /\ pc[p] = "gp_ret"
    /\ mu' = RUnlock(p)
    /\ pc' = [pc EXCEPT ![p] = "gp_held"]
    /\ UNCHANGED <<users, args, tx, ret, clock, nextId, ncalls, pre, okCalls, usersV2>>

\* the caller lets go of the result
DropResult(p) ==
    /\ pc[p] = "gp_held"
    /\ pc' = [pc EXCEPT ![p] = "idle"]
    /\ args' = [args EXCEPT ![p] = NoArgs]
    /\ ret' = [ret EXCEPT ![p] = NoRet]
    /\ UNCHANGED <<users, mu, tx, clock, nextId, ncalls, pre, okCalls, usersV2>>

(* ------------------------------ ledgerService ------------------------- *)

\* the errors of the validation, in the order of the checks
ErrUserIdRequired == "user ID is required"
ErrUserIdFormat == "invalid user ID format"
ErrAmountNotPositive == "amount must be positive"
ErrAmountTooLarge == "amount exceeds maximum allowed"
ErrTransactionType == "invalid transaction type"
ErrDescriptionTooLong == "description exceeds maximum length of 500 characters"

\* userIdRegex = ^[a-zA-Z0-9_.-]{3,50}$ over the characters of the identifier
userIdRegex(userId) ==
    /\ Len(Runes[userId]) >= 3
    /\ Len(Runes[userId]) <= 50
    /\ \A i \in 1..Len(Runes[userId]) : Runes[userId][i] \in UserIdChars

\* the checks of RecordTransaction, from first to last
ValidationErrorWithoutMaximum(userId, txType, amount, description) ==
    IF userId = "" THEN ErrUserIdRequired
    ELSE IF ~userIdRegex(userId) THEN ErrUserIdFormat
    ELSE IF amount <= 0 THEN ErrAmountNotPositive
    ELSE IF txType # Deposit /\ txType # Withdrawal THEN ErrTransactionType
    ELSE IF Len(description) > 500 THEN ErrDescriptionTooLong
    ELSE ErrNil
ValidationError(userId, txType, amount, description) ==
    IF userId = "" THEN ErrUserIdRequired
    ELSE IF ~userIdRegex(userId) THEN ErrUserIdFormat
    ELSE IF amount <= 0 THEN ErrAmountNotPositive
    ELSE IF amount > maxAmount THEN ErrAmountTooLarge
    ELSE IF txType # Deposit /\ txType # Withdrawal THEN ErrTransactionType
    ELSE IF Len(description) > 500 THEN ErrDescriptionTooLong
    ELSE ErrNil

\* RecordTransaction: an early return with the validation error, or the call
\* s.store.AddTransaction(userId, txType, amount, description), whose result it
\* hands on
RecordTransaction(p, userId, txType, amount, description) ==
    IF ValidationError(userId, txType, amount, description) # ErrNil
    THEN /\ pc[p] = "idle"
         /\ pc' = [pc EXCEPT ![p] = "rt_ret"]
         /\ args' = [args EXCEPT ![p] =
                       [op |-> "RecordTransaction", userId |-> userId,
                        txType |-> txType, amount |-> amount,
                        description |-> description]]
         /\ ret' = [ret EXCEPT ![p] =
                      [op |-> "RecordTransaction", tx |-> ZeroRecord,
                       err |-> ValidationError(userId, txType, amount, description)]]
         /\ UNCHANGED <<users, mu, tx, clock, nextId, ncalls, pre, okCalls, usersV2>>
    ELSE AddTransactionLock(p, userId, txType, amount, description)

\* the caller has the validation error
RecordTransactionReturn(p) ==
    /\ pc[p] = "rt_ret"
    /\ pc' = [pc EXCEPT ![p] = "idle"]
    /\ args' = [args EXCEPT ![p] = NoArgs]
    /\ ret' = [ret EXCEPT ![p] = NoRet]
    /\ UNCHANGED <<users, mu, tx, clock, nextId, ncalls, pre, okCalls, usersV2>>

\* the default and the maximum page size of the service, 10 and 100 of a 64-bit
\* int, scaled with the int of the model (IntBits)
defaultPageSize == 2
maxPageSize == 3

ErrStartAfterEnd == "start time cannot be after end time"

\* if page < 1 { page = 1 }
NormalizePage(page) == IF page < 1 THEN 1 ELSE page

\* if pageSize < 1 { pageSize = 10 }; if pageSize > maxPageSize { pageSize = maxPageSize }
NormalizePageSizeUnclamped(pageSize) ==
    IF pageSize < 1 THEN defaultPageSize ELSE pageSize
NormalizePageSize(pageSize) ==
    LET defaulted == IF pageSize < 1 THEN defaultPageSize ELSE pageSize
    IN  IF defaulted > maxPageSize THEN maxPageSize ELSE defaulted

\* startTime != nil && endTime != nil && startTime.After(*endTime)
StartAfterEnd(startTime, endTime) ==
    startTime # NilTime /\ endTime # NilTime /\ After(startTime[1], endTime[1])

\* Go's integer division, which truncates towards zero
Quo(a, b) == IF a >= 0 THEN a \div b ELSE -((-a) \div b)

\* totalPages := (result.TotalCount + pageSize - 1) / pageSize; at least 1
TotalPagesUnclamped(totalCount, pageSize) ==
    Quo(IntSub(IntAdd(totalCount, pageSize), 1), pageSize)
TotalPages(totalCount, pageSize) ==
    LET totalPages == Quo(IntSub(IntAdd(totalCount, pageSize), 1), pageSize)
    IN  IF totalPages < 1 THEN 1 ELSE totalPages

HistoryError(err) ==
    [op |-> "GetPaginatedTransactionHistory", panicked |-> FALSE, err |-> err]

\* GetPaginatedTransactionHistory up to its call of the store: an early return
\* with an error, or the normalized page and pageSize and the store's RLock
GetPaginatedTransactionHistory(p, userId, startTime, endTime, page, pageSize) ==
    /\ pc[p] = "idle"
    /\ IF userId = "" \/ ~userIdRegex(userId) \/ StartAfterEnd(startTime, endTime)
       THEN /\ pc' = [pc EXCEPT ![p] = "ph_ret"]
            /\ ret' = [ret EXCEPT ![p] =
                         HistoryError(IF userId = "" THEN ErrUserIdRequired
                                      ELSE IF ~userIdRegex(userId) THEN ErrUserIdFormat
                                      ELSE ErrStartAfterEnd)]
            /\ UNCHANGED mu
       ELSE /\ CanRLock
            /\ mu' = RLock(p)
            /\ pc' = [pc EXCEPT ![p] = "ph_read"]
            /\ UNCHANGED ret
    /\ args' = [args EXCEPT ![p] =
                  [op |-> "GetPaginatedTransactionHistory", userId |-> userId,
                   startTime |-> startTime, endTime |-> endTime,
                   page |-> NormalizePage(page),
                   pageSize |-> NormalizePageSize(pageSize),
                   callerPage |-> page, callerPageSize |-> pageSize]]
    /\ UNCHANGED <<users, tx, clock, nextId, ncalls, pre, okCalls, usersV2>>

\* the body of the store's GetPaginatedTransactions, under the RLock
GetPaginatedTransactionHistoryRead(p) ==
    /\ pc[p] = "ph_read"
    /\ LET a == args[p]
       IN  ret' = [ret EXCEPT ![p] =
                     GetPaginatedTransactionsResult(users, a.userId, a.startTime,
                                                    a.endTime, a.page, a.pageSize)]
    /\ pc' = [pc EXCEPT ![p] = "ph_store_ret"]
    /\ UNCHANGED <<users, mu, args, tx, clock, nextId, ncalls, pre, okCalls, usersV2>>

\* the store returns (its deferred RUnlock runs, also when it panicked) and the
\* service builds its result
GetPaginatedTransactionHistoryResult(p) ==
    /\ pc[p] = "ph_store_ret"
    /\ mu' = RUnlock(p)
    /\ ret' = [ret EXCEPT ![p] =
                 IF ret[p].panicked
                 THEN [op |-> "GetPaginatedTransactionHistory", panicked |-> TRUE]
                 ELSE [op |-> "GetPaginatedTransactionHistory", panicked |-> FALSE,
                       err |-> ErrNil,
                       Transactions |-> ret[p].Transactions,
                       TotalCount |-> ret[p].TotalCount,
                       Page |-> args[p].page,
                       PageSize |-> args[p].pageSize,
                       TotalPages |-> TotalPages(ret[p].TotalCount, args[p].pageSize)]]
    /\ pc' = [pc EXCEPT ![p] = "ph_ret"]
    /\ UNCHANGED <<users, args, tx, clock, nextId, ncalls, pre, okCalls, usersV2>>

\* the caller has the result, the error or the panic
GetPaginatedTransactionHistoryReturn(p) ==
    /\ pc[p] = "ph_ret"
    /\ pc' = [pc EXCEPT ![p] = "idle"]
    /\ args' = [args EXCEPT ![p] = NoArgs]
    /\ ret' = [ret EXCEPT ![p] = NoRet]
    /\ UNCHANGED <<users, mu, tx, clock, nextId, ncalls, pre, okCalls, usersV2>>

(* ------------------------------ LedgerStoreV2 ------------------------- *)

\* users: make(map[string]*userLedgerV2), as code of package store can write it
MadeUsers == [nil |-> FALSE, entries |-> <<>>]

\* ledger, exists := s.users[userId]: reading a nil map finds nothing
ExistsV2(us, userId) == userId \in DOMAIN us.entries

\* timeComparator: utils.TimeComparator on the two keys
timeComparator(a, b) == IF After(a, b) THEN 1 ELSE IF Before(a, b) THEN -1 ELSE 0

\* redblacktree.NewWith(timeComparator): the tree as the map from its keys to
\* their values
NewTree == <<>>

\* tree.Put(key, value): a key the comparator finds equal to a key of the tree
\* keeps its node, which gets the new value; any other key gets a new node
Put(tree, key, value) ==
    [k \in {j \in DOMAIN tree : timeComparator(j, key) # 0} \cup {key} |->
        IF k = key THEN value ELSE tree[k]]

\* &userLedgerV2{tree: redblacktree.NewWith(timeComparator)}
EmptyLedgerV2 == [tree |-> NewTree, balance |-> 0]

\* the keys of the tree in the order its iterator visits them
RECURSIVE InOrder(_)
InOrder(keys) ==
    IF keys = {} THEN <<>>
    ELSE LET least == CHOOSE k \in keys : \A j \in keys : timeComparator(k, j) <= 0
         IN  <<least>> \o InOrder(keys \ {least})

\* for it.Next() { ... }: keys a start bound is after are skipped, the first key
\* after an end bound ends the loop, the values of the others are appended
RECURSIVE IterateTree(_, _, _, _, _)
IterateTree(tree, keys, startTime, endTime, transactions) ==
    IF keys = <<>> THEN transactions
    ELSE LET t == Head(keys)
         IN  IF startTime # NilTime /\ Before(t, startTime[1])
             THEN IterateTree(tree, Tail(keys), startTime, endTime, transactions)
             ELSE IF endTime # NilTime /\ After(t, endTime[1])
             THEN transactions
             ELSE IterateTree(tree, Tail(keys), startTime, endTime,
                              Append(transactions, tree[t]))

\* a run-time panic of a V2 call (assignment to entry in nil map, slice bounds
\* out of range); the deferred unlock still runs
PanickedV2(op) == [op |-> op, panicked |-> TRUE]

\* AddTransactionV2, from s.mu.Lock() to the deferred s.mu.Unlock(): now is the
\* reading of time.Now()
AddTransactionV2(p, userId, txType, amount, description, now) ==
    /\ pc[p] = "idle"
    /\ pc' = [pc EXCEPT ![p] = "a2_ret"]
    /\ args' = [args EXCEPT ![p] =
                  [op |-> "AddTransactionV2", userId |-> userId, txType |-> txType,
                   amount |-> amount, description |-> description]]
    /\ ncalls' = ncalls + 1
    /\ IF ~ExistsV2(usersV2, userId) /\ usersV2.nil
       THEN /\ ret' = [ret EXCEPT ![p] = PanickedV2("AddTransactionV2")]
            /\ UNCHANGED <<usersV2, clock, nextId>>
       ELSE LET created == IF ExistsV2(usersV2, userId) THEN usersV2.entries
                           ELSE usersV2.entries @@ (userId :> EmptyLedgerV2)
                ledger == created[userId]
            IN  IF InsufficientFunds(ledger.balance, txType, amount)
                THEN /\ usersV2' = [usersV2 EXCEPT !.entries = created]
                     /\ ret' = [ret EXCEPT ![p] =
                                  [op |-> "AddTransactionV2", panicked |-> FALSE,
                                   tx |-> ZeroRecord, err |-> ErrInsufficientFunds]]
                     /\ UNCHANGED <<clock, nextId>>
                ELSE LET record == NewTransactionRecord(nextId, now, txType, amount,
                                                        description)
                     IN  /\ now >= clock
                         /\ clock' = now
                         /\ nextId' = nextId + 1
                         /\ usersV2' =
                              [usersV2 EXCEPT !.entries =
                                 [created EXCEPT ![userId] =
                                    [tree |-> Put(ledger.tree, record.Timestamp, record),
                                     balance |-> AdjustBalance(ledger.balance, txType,
                                                               amount)]]]
                         /\ ret' = [ret EXCEPT ![p] =
                                      [op |-> "AddTransactionV2", panicked |-> FALSE,
                                       tx |-> record, err |-> ErrNil]]
    /\ UNCHANGED <<users, mu, tx, pre, okCalls>>

\* the caller has the record, the error or the panic
AddTransactionV2Return(p) ==
    /\ pc[p] = "a2_ret"
    /\ okCalls' =
         IF ~ret[p].panicked /\ ret[p].err = ErrNil
         THEN [okCalls EXCEPT ![args[p].userId] = @ \cup
                 {[ID |-> ret[p].tx.ID, Type |-> ret[p].tx.Type,
                   Amount |-> ret[p].tx.Amount, op |-> "AddTransactionV2",
                   Timestamp |-> ret[p].tx.Timestamp,
                   Description |-> ret[p].tx.Description]}]
         ELSE okCalls
    /\ pc' = [pc EXCEPT ![p] = "idle"]
    /\ args' = [args EXCEPT ![p] = NoArgs]
    /\ ret' = [ret EXCEPT ![p] = NoRet]
    /\ UNCHANGED <<users, mu, tx, clock, nextId, ncalls, pre, usersV2>>

\* the body of GetPaginatedTransactionsV2, from the map lookup to the return
GetPaginatedTransactionsV2Result(us, userId, startTime, endTime, page0, pageSize) ==
    LET empty(total) ==
            [op |-> "GetPaginatedTransactionsV2", panicked |-> FALSE,
             Transactions |-> <<>>, TotalCount |-> total]
    IN  IF ~ExistsV2(us, userId) THEN empty(0)
        ELSE
          LET tree == us.entries[userId].tree
              transactions == IterateTree(tree, InOrder(DOMAIN tree), startTime,
                                          endTime, <<>>)
              total == Len(transactions)
              page == IF page0 < 1 THEN 1 ELSE page0
              start == IntMul(IntSub(page, 1), pageSize)
              end0 == IntAdd(start, pageSize)
          IN  IF start >= total THEN empty(total)
              ELSE
                LET end == IF end0 > total THEN total ELSE end0
                IN  IF start < 0 \/ end < start
                    THEN PanickedV2("GetPaginatedTransactionsV2")
                    ELSE [empty(total) EXCEPT
                            !.Transactions = SubSeq(transactions, start + 1, end)]

\* GetPaginatedTransactionsV2, from s.mu.RLock() to the deferred s.mu.RUnlock()
GetPaginatedTransactionsV2(p, userId, startTime, endTime, page, pageSize) ==
    /\ pc[p] = "idle"
    /\ pc' = [pc EXCEPT ![p] = "g2_ret"]
    /\ args' = [args EXCEPT ![p] =
                  [op |-> "GetPaginatedTransactionsV2", userId |-> userId,
                   startTime |-> startTime, endTime |-> endTime,
                   page |-> page, pageSize |-> pageSize]]
    /\ ret' = [ret EXCEPT ![p] =
                 GetPaginatedTransactionsV2Result(usersV2, userId, startTime,
                                                  endTime, page, pageSize)]
    /\ UNCHANGED <<users, mu, tx, clock, nextId, ncalls, pre, okCalls, usersV2>>

\* if !exists { return 0, nil }; return ledger.balance, nil
GetBalanceV2Result(us, userId) ==
    [op |-> "GetBalanceV2",
     balance |-> IF ExistsV2(us, userId) THEN us.entries[userId].balance ELSE 0,
     err |-> ErrNil]

\* GetBalanceV2, from s.mu.RLock() to the deferred s.mu.RUnlock()
GetBalanceV2(p, userId) ==
    /\ pc[p] = "idle"
    /\ pc' = [pc EXCEPT ![p] = "b2_ret"]
    /\ args' = [args EXCEPT ![p] = [op |-> "GetBalanceV2", userId |-> userId]]
    /\ ret' = [ret EXCEPT ![p] = GetBalanceV2Result(usersV2, userId)]
    /\ UNCHANGED <<users, mu, tx, clock, nextId, ncalls, pre, okCalls, usersV2>>

\* the caller of a V2 read has the result or the panic
ReadV2Return(p) ==
    /\ pc[p] \in {"g2_ret", "b2_ret"}
    /\ pc' = [pc EXCEPT ![p] = "idle"]
    /\ args' = [args EXCEPT ![p] = NoArgs]
    /\ ret' = [ret EXCEPT ![p] = NoRet]
    /\ UNCHANGED <<users, mu, tx, clock, nextId, ncalls, pre, okCalls, usersV2>>

(* ------------------------------ specifications ----------------------- *)

\* the account the concurrent callers of Spec work on
SpecUsers == {"u1"}

\* Spec: two concurrent callers of the write operations and of GetBalance
Next ==
    \E p \in Procs :
        \/ /\ ncalls < MaxCalls /\ pc[p] = "idle"
           /\ \E u \in SpecUsers, t \in TransactionType, a \in Amounts, d \in Descriptions :
                AddTransactionLock(p, u, t, a, d)
        \/ AddTransactionLookup(p)
        \/ \E now \in Times : AddTransactionCheck(p, now)
        \/ AddTransactionBalance(p)
        \/ AddTransactionAppend(p)
        \/ AddTransactionSort(p)
        \/ AddTransactionReturn(p)
        \/ /\ ncalls < MaxCalls /\ pc[p] = "idle"
           /\ \E u \in SpecUsers, t \in TransactionType, a \in Amounts,
                 ts \in Times, d \in Descriptions :
                AddTransactionWithTimeLock(p, u, t, a, ts, d)
        \/ AddTransactionWithTimeLookup(p)
        \/ AddTransactionWithTimeBalance(p)
        \/ AddTransactionWithTimeAppend(p)
        \/ AddTransactionWithTimeSort(p)
        \/ AddTransactionWithTimeReturn(p)
        \/ \E u \in SpecUsers : GetBalanceRLock(p, u)
        \/ GetBalanceRead(p)
        \/ GetBalanceReturn(p)

Spec == Init /\ [][Next]_vars

\* the arguments of the queries of SpecQuery: every page an int holds
Pages == -1..MaxInt
PageSizes == -1..MaxPageSize
TimeArgs == {NilTime} \cup {TimePtr(t) : t \in QueryTimes}

\* SpecQuery: one caller seeds an account with records of any timestamps
\* (as the tests do, through AddTransactionWithTime) and queries it
NextQuery ==
    \/ /\ ncalls < MaxSeed /\ pc["p1"] = "idle"
       /\ \E ts \in QueryTimes :
            AddTransactionWithTimeLock("p1", "u1", Deposit, 1, ts, "memo")
    \/ AddTransactionWithTimeLookup("p1")
    \/ AddTransactionWithTimeBalance("p1")
    \/ AddTransactionWithTimeAppend("p1")
    \/ AddTransactionWithTimeSort("p1")
    \/ AddTransactionWithTimeReturn("p1")
    \/ /\ pc["p1"] = "idle"
       /\ \E st \in TimeArgs, en \in TimeArgs, pg \in Pages, ps \in PageSizes :
            GetPaginatedTransactionsRLock("p1", "u1", st, en, pg, ps)
    \/ GetPaginatedTransactionsRead("p1")
    \/ GetPaginatedTransactionsReturn("p1")

SpecQuery == Init /\ [][NextQuery]_vars

\* SpecAccounts: two concurrent callers, each call a write to or a read of
\* either of two accounts
NextAccounts ==
    \E p \in Procs :
        \/ /\ ncalls < MaxAccountCalls /\ pc[p] = "idle"
           /\ \E u \in UserIds, t \in TransactionType, a \in Amounts, d \in Descriptions :
                AddTransactionLock(p, u, t, a, d)
        \/ AddTransactionLookup(p)
        \/ \E now \in Times : AddTransactionCheck(p, now)
        \/ AddTransactionBalance(p)
        \/ AddTransactionAppend(p)
        \/ AddTransactionSort(p)
        \/ AddTransactionReturn(p)
        \/ /\ ncalls < MaxAccountCalls /\ pc[p] = "idle"
           /\ \E u \in UserIds, t \in TransactionType, a \in Amounts,
                 ts \in Times, d \in Descriptions :
                AddTransactionWithTimeLock(p, u, t, a, ts, d)
        \/ AddTransactionWithTimeLookup(p)
        \/ AddTransactionWithTimeBalance(p)
        \/ AddTransactionWithTimeAppend(p)
        \/ AddTransactionWithTimeSort(p)
        \/ AddTransactionWithTimeReturn(p)
        \/ /\ pc[p] = "idle"
           /\ \E u \in UserIds : GetBalanceRLock(p, u)
        \/ GetBalanceRead(p)
        \/ GetBalanceReturn(p)
        \/ /\ pc[p] = "idle"
           /\ \E u \in UserIds :
                GetPaginatedTransactionsRLock(p, u, NilTime, NilTime, 1, MaxPageSize)
        \/ GetPaginatedTransactionsRead(p)
        \/ GetPaginatedTransactionsReturn(p)

SpecAccounts == Init /\ [][NextAccounts]_vars

\* SpecReads: one caller writes to account u1 through AddTransaction (a
\* withdrawal from an account without funds is among its calls) and reads both
\* accounts, u2 being an account no call ever wrote to
NextReads ==
    \/ /\ ncalls < MaxSeed /\ pc["p1"] = "idle"
       /\ \E t \in TransactionType : AddTransactionLock("p1", "u1", t, 1, "memo")
    \/ AddTransactionLookup("p1")
    \/ \E now \in Times : AddTransactionCheck("p1", now)
    \/ AddTransactionBalance("p1")
    \/ AddTransactionAppend("p1")
    \/ AddTransactionSort("p1")
    \/ AddTransactionReturn("p1")
    \/ /\ pc["p1"] = "idle"
       /\ \E u \in UserIds : GetBalanceRLock("p1", u)
    \/ GetBalanceRead("p1")
    \/ GetBalanceReturn("p1")
    \/ /\ pc["p1"] = "idle"
       /\ \E u \in UserIds, st \in TimeArgs, en \in TimeArgs, pg \in Pages,
             ps \in PageSizes :
            GetPaginatedTransactionsRLock("p1", u, st, en, pg, ps)
    \/ GetPaginatedTransactionsRead("p1")
    \/ GetPaginatedTransactionsReturn("p1")

SpecReads == Init /\ [][NextReads]_vars

\* SpecConcurrent: two concurrent callers, each writing to the account or
\* reading it through GetBalance and through the first page of
\* GetPaginatedTransactions
NextConcurrent ==
    \E p \in Procs :
        \/ /\ ncalls < MaxCalls /\ pc[p] = "idle"
           /\ \E u \in SpecUsers, t \in TransactionType, a \in Amounts, d \in Descriptions :
                AddTransactionLock(p, u, t, a, d)
        \/ AddTransactionLookup(p)
        \/ \E now \in Times : AddTransactionCheck(p, now)
        \/ AddTransactionBalance(p)
        \/ AddTransactionAppend(p)
        \/ AddTransactionSort(p)
        \/ AddTransactionReturn(p)
        \/ /\ ncalls < MaxCalls /\ pc[p] = "idle"
           /\ \E u \in SpecUsers, t \in TransactionType, a \in Amounts,
                 ts \in Times, d \in Descriptions :
                AddTransactionWithTimeLock(p, u, t, a, ts, d)
        \/ AddTransactionWithTimeLookup(p)
        \/ AddTransactionWithTimeBalance(p)
        \/ AddTransactionWithTimeAppend(p)
        \/ AddTransactionWithTimeSort(p)
        \/ AddTransactionWithTimeReturn(p)
        \/ \E u \in SpecUsers : GetBalanceRLock(p, u)
        \/ GetBalanceRead(p)
        \/ GetBalanceReturn(p)
        \/ \E u \in SpecUsers :
              GetPaginatedTransactionsRLock(p, u, NilTime, NilTime, 1, MaxPageSize)
        \/ GetPaginatedTransactionsRead(p)
        \/ GetPaginatedTransactionsReturn(p)

SpecConcurrent == Init /\ [][NextConcurrent]_vars

\* the pages and page sizes of the queries of SpecSnapshot
SnapshotPages == {1, 2}
SnapshotPageSizes == {1, 2}

\* SpecSnapshot: caller p1 queries the account and keeps each result for a
\* while; caller p2 writes to the account in the meantime
NextSnapshot ==
    \/ /\ pc["p1"] = "idle"
       /\ \E pg \in SnapshotPages, ps \in SnapshotPageSizes :
            GetPaginatedTransactionsRLock("p1", "u1", NilTime, NilTime, pg, ps)
    \/ GetPaginatedTransactionsRead("p1")
    \/ GetPaginatedTransactionsReturnKept("p1")
    \/ DropResult("p1")
    \/ /\ ncalls < MaxCalls /\ pc["p2"] = "idle"
       /\ \E t \in TransactionType, a \in Amounts, d \in Descriptions :
            AddTransactionLock("p2", "u1", t, a, d)
    \/ AddTransactionLookup("p2")
    \/ \E now \in Times : AddTransactionCheck("p2", now)
    \/ AddTransactionBalance("p2")
    \/ AddTransactionAppend("p2")
    \/ AddTransactionSort("p2")
    \/ AddTransactionReturn("p2")
    \/ /\ ncalls < MaxCalls /\ pc["p2"] = "idle"
       /\ \E t \in TransactionType, a \in Amounts, ts \in Times, d \in Descriptions :
            AddTransactionWithTimeLock("p2", "u1", t, a, ts, d)
    \/ AddTransactionWithTimeLookup("p2")
    \/ AddTransactionWithTimeBalance("p2")
    \/ AddTransactionWithTimeAppend("p2")
    \/ AddTransactionWithTimeSort("p2")
    \/ AddTransactionWithTimeReturn("p2")

SpecSnapshot == Init /\ [][NextSnapshot]_vars

\* SpecService: one caller of RecordTransaction, with arguments of every kind
\* the validation tells apart
NextService ==
    \/ /\ ncalls < MaxAccountCalls /\ pc["p1"] = "idle"
       /\ \E u \in ServiceUserIds, t \in ServiceTypes, a \in ServiceAmounts,
             d \in ServiceDescriptions :
            RecordTransaction("p1", u, t, a, d)
    \/ RecordTransactionReturn("p1")
    \/ AddTransactionLookup("p1")
    \/ \E now \in Times : AddTransactionCheck("p1", now)
    \/ AddTransactionBalance("p1")
    \/ AddTransactionAppend("p1")
    \/ AddTransactionSort("p1")
    \/ AddTransactionReturn("p1")

SpecService == Init /\ [][NextService]_vars

\* the page sizes the callers of the service pass: below 1, up to the maximum
\* and above it
ServicePageSizes == -1..(maxPageSize + 2)

\* SpecHistory: one caller records deposits through the service and asks for
\* the history with every user id, range, page and page size
NextHistory ==
    \/ /\ ncalls < MaxSeed /\ pc["p1"] = "idle"
       /\ RecordTransaction("p1", "bob", Deposit, 1, "memo")
    \/ AddTransactionLookup("p1")
    \/ \E now \in Times : AddTransactionCheck("p1", now)
    \/ AddTransactionBalance("p1")
    \/ AddTransactionAppend("p1")
    \/ AddTransactionSort("p1")
    \/ AddTransactionReturn("p1")
    \/ /\ pc["p1"] = "idle"
       /\ \E u \in ServiceUserIds, st \in TimeArgs, en \in TimeArgs, pg \in Pages,
             ps \in ServicePageSizes :
            GetPaginatedTransactionHistory("p1", u, st, en, pg, ps)
    \/ GetPaginatedTransactionHistoryRead("p1")
    \/ GetPaginatedTransactionHistoryResult("p1")
    \/ GetPaginatedTransactionHistoryReturn("p1")

SpecHistory == Init /\ [][NextHistory]_vars

(* ------------------------------ properties ---------------------------- *)

\* sum of the amounts of a set of returned calls
RECURSIVE SumAmounts(_)
SumAmounts(S) ==
    IF S = {} THEN 0
    ELSE LET c == CHOOSE c \in S : TRUE IN c.Amount + SumAmounts(S \ {c})

DepositsOf(S) == {c \in S : c.Type = Deposit}
WithdrawalsOf(S) == {c \in S : c.Type = Withdrawal}

\* deposits minus withdrawals of the records of a sequence, from left to right
RECURSIVE FoldBalance(_)
FoldBalance(txs) ==
    IF txs = <<>> THEN 0
    ELSE LET r == txs[Len(txs)]
             rest == FoldBalance(SubSeq(txs, 1, Len(txs) - 1))
         IN  IF r.Type = Deposit THEN rest + r.Amount
             ELSE IF r.Type = Withdrawal THEN rest - r.Amount
             ELSE rest

SortedByTimestamp(txs) ==
    \A i \in 1..(Len(txs) - 1) : txs[i].Timestamp <= txs[i + 1].Timestamp

AllReturned == \A p \in Procs : pc[p] = "idle"
NoWriterInside == mu.writers = {}

\* C1: the AddTransaction withdrawals that returned no error never add up to more
\* than the deposits that have returned, and a withdrawal that succeeds fits the
\* balance its caller found when it entered the store and leaves it non-negative.
AtomicCheckThenUpdate ==
    /\ \A u \in UserIds :
         SumAmounts({c \in WithdrawalsOf(okCalls[u]) : c.op = "AddTransaction"})
            <= SumAmounts(DepositsOf(okCalls[u]))
    /\ \A p \in Procs :
         (pc[p] = "at_ret" /\ ret[p].err = ErrNil /\ args[p].txType = Withdrawal)
            => /\ args[p].amount <= pre[p].balance
               /\ users[args[p].userId].balance >= 0

\* C1 witness: one withdrawal has succeeded and a second one, which the deposits
\* alone would cover, is rejected
TwoWithdrawalsOneRejected ==
    \E p \in Procs :
        /\ pc[p] = "at_ret"
        /\ ret[p].err = ErrInsufficientFunds
        /\ args[p].amount <= SumAmounts(DepositsOf(okCalls[args[p].userId]))
        /\ \E c \in WithdrawalsOf(okCalls[args[p].userId]) : c.op = "AddTransaction"

\* C2: once every call has returned, the balance (and what GetBalance returns) is
\* the deposits minus the withdrawals of exactly the calls that returned no error,
\* and the history holds exactly one record per such call.
BalanceConservation ==
    /\ AllReturned =>
         \A u \in UserIds :
            LET v == View(users, u)
            IN  /\ v.balance = SumAmounts(DepositsOf(okCalls[u]))
                                 - SumAmounts(WithdrawalsOf(okCalls[u]))
                /\ Len(v.transactions) = Cardinality(okCalls[u])
                /\ {[ID |-> v.transactions[i].ID, Type |-> v.transactions[i].Type,
                     Amount |-> v.transactions[i].Amount] :
                        i \in 1..Len(v.transactions)}
                   = {[ID |-> c.ID, Type |-> c.Type, Amount |-> c.Amount] :
                        c \in okCalls[u]}
    /\ \A p \in Procs :
         pc[p] = "gb_ret" =>
            ret[p].balance = SumAmounts(DepositsOf(okCalls[args[p].userId]))
                               - SumAmounts(WithdrawalsOf(okCalls[args[p].userId]))

\* C2 witness: GetBalance answers after three AddTransaction calls of which one
\* was rejected and one was a successful withdrawal
BalanceReadAfterRejection ==
    \E p \in Procs :
        /\ pc[p] = "gb_ret"
        /\ ncalls = 3
        /\ LET ok == okCalls[args[p].userId]
           IN  /\ Cardinality(ok) = 2
               /\ \A c \in ok : c.op = "AddTransaction"
               /\ WithdrawalsOf(ok) # {}
               /\ ret[p].balance > 0

\* C3: every account's balance, and every balance GetBalance returns, is >= 0.
NoOverdraft ==
    /\ \A u \in DOMAIN users : users[u].balance >= 0
    /\ \A p \in Procs : pc[p] = "gb_ret" => ret[p].balance >= 0

\* C4: an AddTransaction withdrawal of more than the balance returns the
\* insufficient-funds error and leaves balance and sequence as they were.
RejectedWithdrawalLeavesLedger ==
    \A p \in Procs :
        (pc[p] = "at_ret" /\ args[p].txType = Withdrawal
            /\ args[p].amount > pre[p].balance)
        => /\ ret[p].err = ErrInsufficientFunds
           /\ View(users, args[p].userId) = pre[p]

\* C4 witness: a withdrawal is rejected on an account that holds money
RejectedOnFundedAccount ==
    \E p \in Procs :
        /\ pc[p] = "at_ret"
        /\ ret[p].err = ErrInsufficientFunds
        /\ pre[p].balance > 0
        /\ Len(pre[p].transactions) >= 1

\* C5: whenever no writer is inside the store, each balance is the deposits minus
\* the withdrawals of the records of the account's sequence.
BalanceIsFoldOfLog ==
    NoWriterInside =>
        \A u \in DOMAIN users :
            users[u].balance = FoldBalance(users[u].transactions)

\* C5 witness: an account with three records, of both kinds and from both writes
FoldOverMixedLog ==
    /\ NoWriterInside
    /\ \E u \in DOMAIN users :
         /\ Len(users[u].transactions) = 3
         /\ \E i, j \in 1..3 : /\ users[u].transactions[i].Type = Deposit
                               /\ users[u].transactions[j].Type = Withdrawal
         /\ \E c, d \in okCalls[u] : /\ c.op = "AddTransaction"
                                     /\ d.op = "AddTransactionWithTime"
                                     /\ d.Type = Withdrawal

\* C6: whenever no writer is inside the store, each account's sequence is
\* non-decreasing by timestamp.
SortInvariant ==
    NoWriterInside =>
        \A u \in DOMAIN users : SortedByTimestamp(users[u].transactions)

\* C6 witness: a back-dated record stands before an older one, beside a duplicate
BackDatedAndDuplicate ==
    /\ NoWriterInside
    /\ \E u \in DOMAIN users :
         LET txs == users[u].transactions
         IN  /\ Len(txs) = 3
             /\ \E i, j \in 1..3 : i < j /\ txs[i].ID > txs[j].ID
             /\ \E i, j \in 1..3 : i # j /\ txs[i].Timestamp = txs[j].Timestamp

(* ------------------------------ queries ------------------------------- *)

\* the range filter as the specification words it: both bounds inclusive
Matches(r, startTime, endTime) ==
    /\ startTime = NilTime \/ r.Timestamp >= startTime[1]
    /\ endTime = NilTime \/ r.Timestamp <= endTime[1]

ValidRange(startTime, endTime) ==
    startTime = NilTime \/ endTime = NilTime \/ startTime[1] <= endTime[1]

\* the records of a sequence that match the filter, in their stored order
RECURSIVE FilteredSeq(_, _, _)
FilteredSeq(txs, startTime, endTime) ==
    IF txs = <<>> THEN <<>>
    ELSE LET rest == FilteredSeq(Tail(txs), startTime, endTime)
         IN  IF Matches(Head(txs), startTime, endTime) THEN <<Head(txs)>> \o rest
             ELSE rest

\* the records a call returned; a call that panicked returned none
PageRecords(result) ==
    IF result.panicked THEN <<"panic">> ELSE result.Transactions

RangeOf(s) == {s[i] : i \in 1..Len(s)}

\* the pages 1..lastPage of one query, one after the other
RECURSIVE ConcatPages(_, _, _, _, _, _, _)
ConcatPages(us, userId, startTime, endTime, pageSize, page, lastPage) ==
    IF page > lastPage THEN <<>>
    ELSE PageRecords(GetPaginatedTransactionsResult(us, userId, startTime, endTime,
                                                    page, pageSize))
         \o ConcatPages(us, userId, startTime, endTime, pageSize, page + 1, lastPage)

\* ceil(total / pageSize), as the service computes TotalPages
CeilDiv(total, pageSize) == (total + pageSize - 1) \div pageSize

MinOf(x, y) == IF x < y THEN x ELSE y
MaxOf(x, y) == IF x > y THEN x ELSE y

\* startIdx + (page-1)*pageSize is the number it is in mathematics, whatever
\* startIdx in 0..n: the offset fits Go's int
FitsInt(n, page, pageSize) == n + (page - 1) * pageSize <= MaxInt

RecordCount(userId) == Len(View(users, userId).transactions)

Querying(p) == pc[p] = "gp_ret"

\* C7: for a range with startTime <= endTime and a pageSize >= 1, the records on
\* the page a call returns all match the filter, and every matching record of the
\* account is on some page.
RangeFilterCorrectness ==
    \A p \in Procs :
        LET a == args[p]
        IN  (Querying(p) /\ ValidRange(a.startTime, a.endTime) /\ a.pageSize >= 1
                /\ ~ret[p].panicked)
            => /\ \A r \in RangeOf(ret[p].Transactions) :
                     Matches(r, a.startTime, a.endTime)
               /\ \A r \in RangeOf(View(users, a.userId).transactions) :
                     Matches(r, a.startTime, a.endTime)
                     => \E pg \in 1..MaxInt :
                           r \in RangeOf(PageRecords(
                               GetPaginatedTransactionsResult(users, a.userId,
                                   a.startTime, a.endTime, pg, a.pageSize)))

\* C7, for the pages whose offset (page-1)*pageSize fits the machine int
RangeFilterCorrectnessWithoutWrap ==
    \A p \in Procs :
        LET a == args[p]
        IN  (Querying(p) /\ ValidRange(a.startTime, a.endTime) /\ a.pageSize >= 1
                /\ FitsInt(RecordCount(a.userId), MaxOf(a.page, 1), a.pageSize))
            => /\ ~ret[p].panicked
               /\ \A r \in RangeOf(ret[p].Transactions) :
                     Matches(r, a.startTime, a.endTime)
               /\ \A r \in RangeOf(View(users, a.userId).transactions) :
                     Matches(r, a.startTime, a.endTime)
                     => \E pg \in 1..MaxInt :
                           /\ FitsInt(RecordCount(a.userId), pg, a.pageSize)
                           /\ r \in RangeOf(PageRecords(
                                 GetPaginatedTransactionsResult(users, a.userId,
                                     a.startTime, a.endTime, pg, a.pageSize)))

\* C8: for a range with startTime <= endTime, every call returns as TotalCount the
\* number of the account's records that match the filter, whatever the page and
\* the pageSize (here: every pageSize >= 1).
TotalCountIsFilteredTotal ==
    \A p \in Procs :
        LET a == args[p]
        IN  (Querying(p) /\ ValidRange(a.startTime, a.endTime) /\ a.pageSize >= 1)
            => /\ ~ret[p].panicked
               /\ ret[p].TotalCount =
                    Len(FilteredSeq(View(users, a.userId).transactions,
                                    a.startTime, a.endTime))

\* C8, for the pages whose offset fits the machine int and every pageSize >= 0
TotalCountWithoutWrap ==
    \A p \in Procs :
        LET a == args[p]
        IN  (Querying(p) /\ ValidRange(a.startTime, a.endTime) /\ a.pageSize >= 0
                /\ FitsInt(RecordCount(a.userId), MaxOf(a.page, 1), a.pageSize))
            => /\ ~ret[p].panicked
               /\ ret[p].TotalCount =
                    Len(FilteredSeq(View(users, a.userId).transactions,
                                    a.startTime, a.endTime))

PageLength ==
    \A p \in Procs :
        LET a == args[p]
        IN  (Querying(p) /\ a.page >= 1 /\ a.pageSize >= 1)
            => /\ ~ret[p].panicked
               /\ Len(ret[p].Transactions) =
                    MinOf(a.pageSize,
                          MaxOf(0, ret[p].TotalCount - (a.page - 1) * a.pageSize))

\* C10, for the pages whose offset fits the machine int
PageLengthWithoutWrap ==
    \A p \in Procs :
        LET a == args[p]
        IN  (Querying(p) /\ a.page >= 1 /\ a.pageSize >= 1
                /\ FitsInt(RecordCount(a.userId), a.page, a.pageSize))
            => /\ ~ret[p].panicked
               /\ Len(ret[p].Transactions) =
                    MinOf(a.pageSize,
                          MaxOf(0, ret[p].TotalCount - (a.page - 1) * a.pageSize))

\* the records a call handed to its caller: none when it panicked
ReturnedRecords(result) ==
    IF result.panicked THEN <<>> ELSE result.Transactions

\* position (p, i) comes before position (q, j)
LexBefore(p, i, q, j) == p < q \/ (p = q /\ i < j)

\* the records of two pages stand in timestamp order, whichever page is first
PagesInOrder(p, rs, q, qs) ==
    \A i \in 1..Len(rs), j \in 1..Len(qs) :
        /\ LexBefore(p, i, q, j) => rs[i].Timestamp <= qs[j].Timestamp
        /\ LexBefore(q, j, p, i) => qs[j].Timestamp <= rs[i].Timestamp

\* C11: for one state, filter and pageSize >= 1, a record at position i of page p
\* and a record at position j of page q with (p, i) lexicographically before
\* (q, j) have timestamp(r) <= timestamp(r').
OrderedAcrossPages ==
    \A p \in Procs :
        LET a == args[p]
        IN  (Querying(p) /\ a.page >= 1 /\ a.pageSize >= 1)
            => \A q \in 1..MaxInt :
                  PagesInOrder(a.page, ReturnedRecords(ret[p]), q,
                      ReturnedRecords(GetPaginatedTransactionsResult(users, a.userId,
                          a.startTime, a.endTime, q, a.pageSize)))

\* C11, for the pages whose offset fits the machine int
OrderedAcrossPagesWithoutWrap ==
    \A p \in Procs :
        LET a == args[p]
        IN  (Querying(p) /\ a.page >= 1 /\ a.pageSize >= 1
                /\ FitsInt(RecordCount(a.userId), a.page, a.pageSize))
            => \A q \in 1..MaxInt :
                  FitsInt(RecordCount(a.userId), q, a.pageSize)
                  => PagesInOrder(a.page, ReturnedRecords(ret[p]), q,
                        ReturnedRecords(GetPaginatedTransactionsResult(users,
                            a.userId, a.startTime, a.endTime, q, a.pageSize)))

(* ------------------------------ accounts ------------------------------ *)

\* the account of the call that takes a step for caller p
AccountOfStep(p) == IF pc[p] = "idle" THEN args'[p].userId ELSE args[p].userId

\* C12: no step of an AddTransaction or AddTransactionWithTime call on account A,
\* accepted or rejected, changes the balance or the sequence of another account
\* B, nor whether B has a ledger, in any interleaving of the callers.
AccountIsolation ==
    [][\A p \in Procs :
          pc'[p] # pc[p]
          => \A B \in UserIds \ {AccountOfStep(p)} :
                /\ View(users', B) = View(users, B)
                /\ (B \in DOMAIN users') = (B \in DOMAIN users)]_vars

\* C12 witness: a call that changed its account is about to return while the
\* other account holds a record and money
WriteBesideFundedAccount ==
    \E p \in Procs :
        /\ pc[p] \in {"at_ret", "wt_ret"}
        /\ View(users, args[p].userId) # pre[p]
        /\ \E B \in UserIds \ {args[p].userId} :
              /\ B \in DOMAIN users
              /\ users[B].balance > 0
              /\ Len(users[B].transactions) >= 1

\* no transaction was ever recorded on the account
NeverRecorded(userId) == okCalls[userId] = {} /\ RecordCount(userId) = 0

\* C13: on an account on which no transaction was ever recorded GetBalance
\* returns 0 and GetPaginatedTransactions returns an empty sequence with
\* TotalCount 0, for every filter, page and pageSize; GetBalance returns no error
\* in any state.
UnknownAccountIsZero ==
    \A p \in Procs :
        /\ pc[p] = "gb_ret" =>
              /\ ret[p].err = ErrNil
              /\ NeverRecorded(args[p].userId) => ret[p].balance = 0
        /\ (Querying(p) /\ NeverRecorded(args[p].userId)) =>
              /\ ~ret[p].panicked
              /\ ret[p].Transactions = <<>>
              /\ ret[p].TotalCount = 0

\* C13, for the accounts that have no ledger in the store
NoLedgerIsZero ==
    \A p \in Procs :
        /\ pc[p] = "gb_ret" =>
              /\ ret[p].err = ErrNil
              /\ args[p].userId \notin DOMAIN users => ret[p].balance = 0
        /\ (Querying(p) /\ args[p].userId \notin DOMAIN users) =>
              /\ ~ret[p].panicked
              /\ ret[p].Transactions = <<>>
              /\ ret[p].TotalCount = 0

(* ------------------------------ concurrency --------------------------- *)

IdsOf(txs) == {txs[i].ID : i \in 1..Len(txs)}

\* the balance the calls that have returned add up to
ReturnedBalance(userId) ==
    SumAmounts(DepositsOf(okCalls[userId])) - SumAmounts(WithdrawalsOf(okCalls[userId]))

\* C14: what a GetBalance or GetPaginatedTransactions call reads is the account
\* as the writes that have returned left it: the balance of exactly those writes,
\* a sorted sequence holding exactly their records, and never an account whose
\* balance and sequence disagree.
ReadersSeeWholeWrites ==
    \A p \in Procs :
        LET u == args[p].userId
        IN  /\ pc[p] = "gb_ret" =>
                  /\ ret[p].balance = ReturnedBalance(u)
                  /\ ret[p].balance = FoldBalance(View(users, u).transactions)
            /\ pc[p] = "gp_ret" =>
                  /\ ~ret[p].panicked
                  /\ ret[p].TotalCount = Cardinality(okCalls[u])
                  /\ Len(ret[p].Transactions)
                       = MinOf(args[p].pageSize, Cardinality(okCalls[u]))
                  /\ IdsOf(ret[p].Transactions) \subseteq {c.ID : c \in okCalls[u]}
                  /\ SortedByTimestamp(ret[p].Transactions)
                  /\ View(users, u).balance = ReturnedBalance(u)

\* C14 witness: a page is read that holds a back-dated record in its sorted
\* place, after writes of both kinds, while the other caller reads the balance
ReadAfterBackDatedWrite ==
    \E p, q \in Procs :
        /\ pc[p] = "gp_ret"
        /\ pc[q] = "gb_ret"
        /\ Len(ret[p].Transactions) >= 2
        /\ \E i, j \in 1..Len(ret[p].Transactions) :
              i < j /\ ret[p].Transactions[i].ID > ret[p].Transactions[j].ID
        /\ \E c \in okCalls[args[p].userId] : c.op = "AddTransaction"

\* the elements of array a from index lo on, at most n of them
ElementsFrom(a, lo, n) == SubSeq(a, lo + 1, MinOf(lo + n, Len(a)))

\* what the holder of a returned result reads in it when the store is us: the
\* elements of the array its slice points into
HeldRecords(result, us) ==
    IF result.array = NewArray THEN result.Transactions
    ELSE ElementsFrom(View(us, result.array[2]).transactions, result.array[3],
                      Len(result.Transactions))

\* C15: while a caller holds the result of a GetPaginatedTransactions call, no
\* step of an AddTransaction or AddTransactionWithTime on the same account
\* changes the content, the order or the length of the records it reads there.
ReturnedPagesAreSnapshots ==
    [][\A p \in Procs :
          (pc[p] = "gp_held" /\ pc'[p] = "gp_held")
          => HeldRecords(ret'[p], users') = HeldRecords(ret[p], users)]_vars

\* C15 witness: a held page of two records, and a later back-dated write has put
\* another record at the place in the live sequence the page was copied from
HeldPageAfterResort ==
    \E p \in Procs :
        /\ pc[p] = "gp_held"
        /\ ~ret[p].panicked
        /\ Len(ret[p].Transactions) = 2
        /\ \A q \in Procs \ {p} : pc[q] = "idle"
        /\ ElementsFrom(users[args[p].userId].transactions,
                        (args[p].page - 1) * args[p].pageSize, 2)
             # ret[p].Transactions

\* caller p is between the Lock and the Unlock of a write
InsideWriter(p) ==
    pc[p] \in {"at_lookup", "at_check", "at_balance", "at_append", "at_sort", "at_ret",
               "wt_lookup", "wt_balance", "wt_append", "wt_sort", "wt_ret"}

\* caller p is between the RLock and the RUnlock of a read
InsideReader(p) == pc[p] \in {"gb_read", "gb_ret", "gp_read", "gp_ret"}

\* C16: while an AddTransaction or AddTransactionWithTime call is between its
\* Lock and its Unlock, no other call, reader or writer, on any account, is
\* inside the store; the mutex knows exactly the callers that are inside.
ReaderWriterExclusion ==
    /\ \A p \in Procs :
          InsideWriter(p)
          => \A q \in Procs \ {p} : ~InsideWriter(q) /\ ~InsideReader(q)
    /\ mu.writers = {p \in Procs : InsideWriter(p)}
    /\ mu.readers = {p \in Procs : InsideReader(p)}

\* C16 witness: a GetBalance and a GetPaginatedTransactions call are inside the
\* store at the same time, on an account that has been written to
TwoReadersInside ==
    \E p, q \in Procs :
        /\ pc[p] = "gb_read"
        /\ pc[q] = "gp_read"
        /\ args[p].userId = args[q].userId
        /\ RecordCount(args[p].userId) >= 1
        /\ mu.readers = {p, q}

(* ------------------------------ history ------------------------------- *)

\* C17: in every step, every account that has a ledger keeps it, every record of
\* its sequence is in the sequence afterwards with the same identifier, amount,
\* kind, timestamp and description, and the sequence does not get shorter.
AppendOnlyHistory ==
    [][\A u \in DOMAIN users :
          /\ u \in DOMAIN users'
          /\ Len(users'[u].transactions) >= Len(users[u].transactions)
          /\ RangeOf(users[u].transactions) \subseteq RangeOf(users'[u].transactions)
          /\ Cardinality(RangeOf(users'[u].transactions))
               = Len(users'[u].transactions)]_vars

\* C17 witness: a back-dated record has been sorted to the front of a sequence
\* that held two records, which have moved one place each
SortedInFrontOfTwo ==
    \E p \in Procs :
        /\ pc[p] = "wt_ret"
        /\ Len(pre[p].transactions) = 2
        /\ LET txs == users[args[p].userId].transactions
           IN  /\ txs[1] = args[p].tx
               /\ SubSeq(txs, 2, 3) = pre[p].transactions

\* C18: an AddTransactionWithTime call given a Withdrawal record of more than the
\* account's balance rejects it and leaves balance and sequence as they were.
WithTimeRejectsOverdraft ==
    \A p \in Procs :
        (pc[p] = "wt_ret" /\ args[p].tx.Type = Withdrawal
            /\ args[p].tx.Amount > pre[p].balance)
        => View(users, args[p].userId) = pre[p]

(* ------------------------------ service ------------------------------- *)

\* arguments the validation has to refuse: an empty or ill-formed user id, an
\* amount <= 0 or > 1,000,000, a kind other than deposit and withdrawal, or a
\* description of more than 500 characters
RefusedArguments(a) ==
    \/ a.userId = ""
    \/ ~userIdRegex(a.userId)
    \/ a.amount <= 0
    \/ a.amount > 1000000
    \/ a.txType \notin TransactionType
    \/ Len(a.description) > 500

\* C19: a RecordTransaction call with such arguments returns an error, and no
\* step of the call changes the store: every balance, every sequence and the set
\* of accounts stay as they are, and the mutex is not taken.
ValidationBeforeStore ==
    [][\A p \in Procs :
          /\ (pc[p] = "idle" /\ pc'[p] # "idle" /\ RefusedArguments(args'[p]))
             => /\ pc'[p] = "rt_ret"
                /\ ret'[p].err # ErrNil
                /\ users' = users
                /\ mu' = mu
          /\ pc[p] = "rt_ret" => (users' = users /\ mu' = mu)]_vars

\* C19 witness: a call is refused for its amount alone, above the maximum, on an
\* account that holds a record
RefusedAboveMaximum ==
    \E p \in Procs :
        /\ pc[p] = "rt_ret"
        /\ ret[p].err = ErrAmountTooLarge
        /\ args[p].txType = Withdrawal
        /\ Len(args[p].description) = 500
        /\ RecordCount(args[p].userId) >= 1

\* page and pageSize are what the normalization makes of the caller's values
NormalizedFor(callerPage, callerPageSize, page, pageSize) ==
    /\ callerPage < 1 => page = 1
    /\ callerPage >= 1 => page = callerPage
    /\ callerPageSize < 1 => pageSize = defaultPageSize
    /\ callerPageSize > maxPageSize => pageSize = maxPageSize
    /\ callerPageSize \in 1..maxPageSize => pageSize = callerPageSize

\* C20: GetPaginatedTransactionHistory queries the store with page < 1 replaced
\* by 1, pageSize < 1 by the default and pageSize above the maximum by the
\* maximum; the Page and PageSize it returns are these values, PageSize is between
\* 1 and the maximum, and it returns no more than PageSize records.
ServiceNormalization ==
    \A p \in Procs :
        LET a == args[p]
        IN  /\ pc[p] \in {"ph_read", "ph_store_ret"}
                  => NormalizedFor(a.callerPage, a.callerPageSize, a.page, a.pageSize)
            /\ (pc[p] = "ph_ret" /\ ~ret[p].panicked /\ ret[p].err = ErrNil)
                  => /\ NormalizedFor(a.callerPage, a.callerPageSize,
                                      ret[p].Page, ret[p].PageSize)
                     /\ ret[p].PageSize \in 1..maxPageSize
                     /\ Len(ret[p].Transactions) <= ret[p].PageSize

\* C20 witness: page -1 and pageSize 0 are answered as page 1 of the default
\* size, which holds fewer records than the account has
DefaultsCutThePage ==
    \E p \in Procs :
        /\ pc[p] = "ph_ret"
        /\ ~ret[p].panicked
        /\ ret[p].err = ErrNil
        /\ args[p].callerPage = -1
        /\ args[p].callerPageSize = 0
        /\ ret[p].Page = 1
        /\ Len(ret[p].Transactions) = ret[p].PageSize
        /\ ret[p].TotalCount > ret[p].PageSize

\* the ceiling of total / pageSize: the least number of pages of pageSize
\* records that hold total records
Ceiling(total, pageSize) ==
    CHOOSE k \in 0..total : k * pageSize >= total /\ (k = 0 \/ (k - 1) * pageSize < total)

\* the service has answered a query of caller p with a result
Answered(p) == pc[p] = "ph_ret" /\ ~ret[p].panicked /\ ret[p].err = ErrNil

\* C21: every result of GetPaginatedTransactionHistory has a TotalCount >= 0 and
\* a TotalPages that is the ceiling of TotalCount / PageSize, also when no record
\* matches the query.
TotalPagesIsCeiling ==
    \A p \in Procs :
        Answered(p)
        => /\ ret[p].TotalCount >= 0
           /\ ret[p].TotalPages = Ceiling(ret[p].TotalCount, ret[p].PageSize)

\* C21, amended: TotalPages is the ceiling of TotalCount / PageSize when a record
\* matches the query, and 1 when none does.
TotalPagesIsCeilingOrOne ==
    \A p \in Procs :
        Answered(p)
        => /\ ret[p].TotalCount >= 0
           /\ ret[p].TotalCount >= 1
                 => ret[p].TotalPages = Ceiling(ret[p].TotalCount, ret[p].PageSize)
           /\ ret[p].TotalCount = 0 => ret[p].TotalPages = 1

\* C21 witness: a query with a range that matches none of the account's three
\* records is answered with one page
NoMatchHasOnePage ==
    \E p \in Procs :
        /\ Answered(p)
        /\ RecordCount(args[p].userId) = 3
        /\ ret[p].TotalCount = 0
        /\ ret[p].TotalPages = 1

(* ------------------------------ results ------------------------------- *)

\* the whole history of an account as one GetPaginatedTransactions call returns it
WholeHistory(us, userId) ==
    PageRecords(GetPaginatedTransactionsResult(us, userId, NilTime, NilTime, 1,
                    Len(View(us, userId).transactions)))

\* C22: an AddTransaction call that succeeds returns a record with the kind, the
\* amount and the description of the call, and this record, with its identifier
\* and timestamp, is in the history GetPaginatedTransactions returns; a call
\* that is rejected returns the zero record and the error.
AddTransactionReturnsStored ==
    \A p \in Procs :
        pc[p] = "at_ret"
        => IF ret[p].err = ErrNil
           THEN /\ ret[p].tx.Type = args[p].txType
                /\ ret[p].tx.Amount = args[p].amount
                /\ ret[p].tx.Description = args[p].description
                /\ ret[p].tx \in RangeOf(WholeHistory(users, args[p].userId))
                /\ ret[p].tx \notin RangeOf(pre[p].transactions)
           ELSE /\ ret[p].tx = ZeroRecord
                /\ ret[p].err = ErrInsufficientFunds

\* C22 witness: a withdrawal succeeds and its record is returned and stored in
\* front of a record with a later timestamp
StoredBeforeLaterRecord ==
    \E p \in Procs :
        /\ pc[p] = "at_ret"
        /\ ret[p].err = ErrNil
        /\ args[p].txType = Withdrawal
        /\ LET h == WholeHistory(users, args[p].userId)
           IN  /\ Len(h) >= 2
               /\ \E i \in 1..(Len(h) - 1) :
                     /\ h[i] = ret[p].tx
                     /\ h[i + 1].Timestamp > ret[p].tx.Timestamp

\* C23: for every page < 1, GetPaginatedTransactions returns exactly what it
\* returns for page = 1 with the same account, filter and pageSize: the same
\* records and the same TotalCount.
DefensivePageIsFirstPage ==
    \A p \in Procs :
        LET a == args[p]
        IN  (Querying(p) /\ a.page < 1)
            => ret[p] = GetPaginatedTransactionsResult(users, a.userId, a.startTime,
                                                       a.endTime, 1, a.pageSize)

\* C23 witness: page 0 with pageSize 2 returns the first two of three records
PageZeroReturnsFirstPage ==
    \E p \in Procs :
        /\ Querying(p)
        /\ args[p].page = 0
        /\ args[p].pageSize = 2
        /\ ~ret[p].panicked
        /\ ret[p].TotalCount = 3
        /\ ret[p].Transactions = SubSeq(users[args[p].userId].transactions, 1, 2)

\* C24: a GetPaginatedTransactions call with startTime later than endTime
\* returns an empty page and TotalCount = 0, and no call returns a negative
\* TotalCount, whatever its startTime and endTime.
InvertedRangeIsEmpty ==
    \A p \in Procs :
        LET a == args[p]
        IN  (Querying(p) /\ ~ret[p].panicked)
            => /\ ret[p].TotalCount >= 0
               /\ ~ValidRange(a.startTime, a.endTime)
                     => (ret[p].Transactions = <<>> /\ ret[p].TotalCount = 0)

\* C25: for every page >= 1 an int holds and every pageSize >= 1 of a query with
\* startTime <= endTime, when (page-1)*pageSize is at least the number of
\* matching records the call returns an empty page with that number as
\* TotalCount, and no call indexes outside the sequence.
PageArithmeticDoesNotWrap ==
    \A p \in Procs :
        LET a == args[p]
            matching == Len(FilteredSeq(View(users, a.userId).transactions,
                                        a.startTime, a.endTime))
        IN  (Querying(p) /\ a.page >= 1 /\ a.pageSize >= 1
                /\ ValidRange(a.startTime, a.endTime))
            => /\ ~ret[p].panicked
               /\ (a.page - 1) * a.pageSize >= matching
                     => (ret[p].Transactions = <<>> /\ ret[p].TotalCount = matching)

\* C26: an AddTransaction withdrawal of exactly the account's balance is
\* accepted, leaves the balance at 0 and appends its record; a withdrawal of a
\* positive amount from a balance of 0 is rejected.
ExactBalanceWithdrawal ==
    \A p \in Procs :
        (pc[p] = "at_ret" /\ args[p].txType = Withdrawal /\ args[p].amount > 0)
        => /\ args[p].amount = pre[p].balance
                 => /\ ret[p].err = ErrNil
                    /\ users[args[p].userId].balance = 0
                    /\ Len(users[args[p].userId].transactions)
                         = Len(pre[p].transactions) + 1
                    /\ ret[p].tx \in RangeOf(users[args[p].userId].transactions)
           /\ pre[p].balance = 0
                 => /\ ret[p].err = ErrInsufficientFunds
                    /\ View(users, args[p].userId) = pre[p]

\* C26 witness: a withdrawal is rejected on an account whose balance an earlier
\* AddTransaction withdrawal has brought to exactly 0
RejectedAfterExactWithdrawal ==
    \E p \in Procs :
        /\ pc[p] = "at_ret"
        /\ ret[p].err = ErrInsufficientFunds
        /\ pre[p].balance = 0
        /\ Len(pre[p].transactions) = 2
        /\ \A c \in okCalls[args[p].userId] : c.op = "AddTransaction"
        /\ \E c \in WithdrawalsOf(okCalls[args[p].userId]) :
              c.Amount = SumAmounts(DepositsOf(okCalls[args[p].userId]))

\* the place of record r in a sequence that holds it
IndexOf(txs, r) == CHOOSE i \in 1..Len(txs) : txs[i] = r

\* records of one timestamp stand in the order of their insertion, which is the
\* order of their identifiers
TiesInInsertionOrder(txs) ==
    \A i, j \in 1..Len(txs) :
        (i < j /\ txs[i].Timestamp = txs[j].Timestamp) => txs[i].ID < txs[j].ID

\* C27: whenever no writer is inside the store, records of the same timestamp
\* stand in every account's sequence in the order in which they were inserted;
\* and when an AddTransaction or AddTransactionWithTime call returns, every two
\* records that were in the sequence before the call stand in the order they
\* had.
StableTieOrder ==
    /\ NoWriterInside =>
          \A u \in DOMAIN users : TiesInInsertionOrder(users[u].transactions)
    /\ \A p \in Procs :
          pc[p] \in {"at_ret", "wt_ret"}
          => LET txs == View(users, args[p].userId).transactions
             IN  /\ TiesInInsertionOrder(txs)
                 /\ \A r, q \in RangeOf(pre[p].transactions) :
                       IndexOf(pre[p].transactions, r) < IndexOf(pre[p].transactions, q)
                       => IndexOf(txs, r) < IndexOf(txs, q)

\* C27 witness: two back-dated records of one timestamp stand, in the order of
\* their insertion, in front of a record inserted before them
TiedBackDatedPair ==
    /\ NoWriterInside
    /\ \E u \in DOMAIN users :
         LET txs == users[u].transactions
         IN  /\ Len(txs) = 3
             /\ txs[1].Timestamp = txs[2].Timestamp
             /\ txs[2].Timestamp < txs[3].Timestamp
             /\ txs[3].ID < txs[1].ID
             /\ txs[1].ID < txs[2].ID

\* C28: whenever no writer is inside the store, the account mapping has an entry
\* only for identifiers on which at least one transaction was recorded; a
\* rejected withdrawal on a never-seen account leaves no entry.
LedgersOnlyWithHistory ==
    NoWriterInside =>
        \A u \in DOMAIN users : Len(users[u].transactions) >= 1

\* C29: no step of a GetBalance or GetPaginatedTransactions call, from taking
\* the read lock to releasing it, changes the account mapping, a balance or a
\* sequence, for known and unknown accounts and every filter, page and pageSize.
ReadsArePure ==
    [][\A p \in Procs :
          (pc'[p] # pc[p] /\ (InsideReader(p) \/ pc'[p] \in {"gb_read", "gp_read"}))
          => users' = users]_vars

\* C29 witness: a query on an account the store does not know has been answered
\* while another account holds records, and the store still does not know it
QueryLeftAccountUnknown ==
    \E p \in Procs :
        /\ pc[p] = "gp_ret"
        /\ args[p].userId \notin DOMAIN users
        /\ args[p].page > 1
        /\ \E u \in DOMAIN users : Len(users[u].transactions) >= 2

(* ------------------------------- liveness ----------------------------- *)

\* the write calls a run of SpecLive starts
MaxLiveCalls == 2

\* the calls of SpecLive: a deposit and a withdrawal (the first withdrawal of
\* an account is rejected), a back-dated deposit, a balance read, and a first
\* and a second page (empty below three records), on an account that is unknown
\* until the first write
LiveCalls ==
    {[op |-> "AddTransaction", userId |-> "u1", txType |-> t, amount |-> 1,
      description |-> "memo"] : t \in TransactionType}
    \cup {[op |-> "AddTransactionWithTime", userId |-> "u1", txType |-> Deposit,
           amount |-> 1, timestamp |-> 1, description |-> "memo"]}
    \cup {[op |-> "GetBalance", userId |-> "u1"]}
    \cup {[op |-> "GetPaginatedTransactions", userId |-> "u1",
           startTime |-> NilTime, endTime |-> NilTime, page |-> pg,
           pageSize |-> 2] : pg \in 1..2}

WriteOps == {"AddTransaction", "AddTransactionWithTime"}

\* a caller blocked in s.mu.Lock() or s.mu.RLock(): it has called the operation
\* and holds nothing yet
Blocked(p) == pc[p] = "idle" /\ args[p] # NoArgs

\* sync.RWMutex: a Lock() that is waiting for the readers to leave holds off
\* every later RLock()
WriterBlocked == \E q \in Procs : Blocked(q) /\ args[q].op \in WriteOps

\* a goroutine calls an operation of the store and reaches its Lock or RLock
Call(p, call) ==
    /\ pc[p] = "idle"
    /\ args[p] = NoArgs
    /\ call.op \in WriteOps
       => ncalls + Cardinality({q \in Procs : Blocked(q) /\ args[q].op \in WriteOps})
            < MaxLiveCalls
    /\ args' = [args EXCEPT ![p] = call]
    /\ UNCHANGED <<users, mu, pc, tx, ret, clock, nextId, ncalls, pre, okCalls, usersV2>>

\* the blocked Lock or RLock returns, and the operation goes on under the lock
Acquire(p) ==
    /\ Blocked(p)
    /\ LET a == args[p]
       IN  \/ /\ a.op = "AddTransaction"
              /\ AddTransactionLock(p, a.userId, a.txType, a.amount, a.description)
           \/ /\ a.op = "AddTransactionWithTime"
              /\ AddTransactionWithTimeLock(p, a.userId, a.txType, a.amount,
                                            a.timestamp, a.description)
           \/ /\ a.op = "GetBalance"
              /\ ~WriterBlocked
              /\ GetBalanceRLock(p, a.userId)
           \/ /\ a.op = "GetPaginatedTransactions"
              /\ ~WriterBlocked
              /\ GetPaginatedTransactionsRLock(p, a.userId, a.startTime, a.endTime,
                                               a.page, a.pageSize)

\* the statements a caller runs while it holds the lock, the deferred unlock
\* included
StepUnderLock(p) ==
    \/ AddTransactionLookup(p)
    \/ \E now \in Times : AddTransactionCheck(p, now)
    \/ AddTransactionBalance(p)
    \/ AddTransactionAppend(p)
    \/ AddTransactionSort(p)
    \/ AddTransactionReturn(p)
    \/ AddTransactionWithTimeLookup(p)
    \/ AddTransactionWithTimeBalance(p)
    \/ AddTransactionWithTimeAppend(p)
    \/ AddTransactionWithTimeSort(p)
    \/ AddTransactionWithTimeReturn(p)
    \/ GetBalanceRead(p)
    \/ GetBalanceReturn(p)
    \/ GetPaginatedTransactionsRead(p)
    \/ GetPaginatedTransactionsReturn(p)

NextLive ==
    \E p \in Procs :
        \/ \E call \in LiveCalls : Call(p, call)
        \/ Acquire(p)
        \/ StepUnderLock(p)

\* the Go scheduler runs every runnable goroutine, so a caller under the lock
\* takes its next step, and a goroutine blocked in Lock or RLock gets the mutex
\* once it stays free for it (sync.Mutex hands over to a starving waiter,
\* sync.RWMutex.Unlock admits the readers that were blocked)
Fairness ==
    \A p \in Procs : WF_vars(StepUnderLock(p)) /\ WF_vars(Acquire(p))

SpecLive == Init /\ [][NextLive]_vars /\ Fairness

Started(p) == args[p] # NoArgs

\* C30: under fair scheduling every started AddTransaction,
\* AddTransactionWithTime, GetBalance and GetPaginatedTransactions call
\* eventually returns, whatever readers and writers run beside it; and a caller
\* that has returned, on any exit path, holds the mutex no more.
EveryCallReturns ==
    /\ \A p \in Procs : Started(p) ~> ~Started(p)
    /\ [](\A p \in Procs : pc[p] = "idle" => p \notin mu.writers \cup mu.readers)

\* C30 witness: a writer is blocked in Lock behind a reader that is returning an
\* empty page, after a withdrawal was rejected for insufficient funds.
WriterBlockedBehindReader ==
    \E p \in Procs, q \in Procs :
        /\ Blocked(p) /\ args[p].op \in WriteOps
        /\ pc[q] = "gp_ret" /\ ~ret[q].panicked /\ ret[q].Transactions = <<>>
        /\ ncalls >= 1
        /\ okCalls["u1"] = {}
        /\ "u1" \in DOMAIN users

(* ---------------------------- instant ranges -------------------------- *)

\* a call of the service with both bounds present and equal
InstantRange(a) ==
    /\ a.startTime # NilTime /\ a.endTime # NilTime
    /\ a.startTime = a.endTime
    /\ a.userId # "" /\ userIdRegex(a.userId)

\* the page of the records of the account that lie in the range of the call
PageOfMatching(a) ==
    ElementsFrom(FilteredSeq(View(users, a.userId).transactions, a.startTime,
                             a.endTime),
                 (a.page - 1) * a.pageSize, a.pageSize)

\* C31: GetPaginatedTransactionHistory with startTime after endTime returns an
\* error and never reaches the store; with startTime equal to endTime it
\* succeeds, counts the records at that instant and returns the page of exactly
\* those records.
InvertedRangeRejected ==
    \A p \in Procs :
        LET a == args[p]
        IN  /\ pc[p] \in {"ph_read", "ph_store_ret"}
               => ~StartAfterEnd(a.startTime, a.endTime)
            /\ (pc[p] = "ph_ret" /\ StartAfterEnd(a.startTime, a.endTime))
               => ~ret[p].panicked /\ ret[p].err # ErrNil
            /\ (pc[p] = "ph_ret" /\ InstantRange(a))
               => /\ Answered(p)
                  /\ ret[p].TotalCount =
                       Len(FilteredSeq(View(users, a.userId).transactions,
                                       a.startTime, a.endTime))
                  /\ ret[p].Transactions = PageOfMatching(a)

\* C31, for the pages whose offset (page-1)*pageSize fits the machine int
InvertedRangeRejectedWithoutWrap ==
    \A p \in Procs :
        LET a == args[p]
        IN  /\ pc[p] \in {"ph_read", "ph_store_ret"}
               => ~StartAfterEnd(a.startTime, a.endTime)
            /\ (pc[p] = "ph_ret" /\ StartAfterEnd(a.startTime, a.endTime))
               => ~ret[p].panicked /\ ret[p].err # ErrNil
            /\ (pc[p] = "ph_ret" /\ InstantRange(a)
                  /\ FitsInt(RecordCount(a.userId), a.page, a.pageSize))
               => /\ Answered(p)
                  /\ ret[p].TotalCount =
                       Len(FilteredSeq(View(users, a.userId).transactions,
                                       a.startTime, a.endTime))
                  /\ ret[p].Transactions = PageOfMatching(a)

\* an instant range answered with the two records at that instant, and not the
\* one before it
InstantRangeAnswered ==
    \E p \in Procs :
        /\ pc[p] = "ph_ret" /\ InstantRange(args[p]) /\ Answered(p)
        /\ Len(ret[p].Transactions) = 2
        /\ RecordCount(args[p].userId) = 3

(* ------------------------ LedgerStoreV2 equivalence ------------------- *)

\* a LedgerStoreV2 is the zero value (NewLedgerStoreV2 builds a LedgerStore) or
\* a literal with a made map
InitV2 ==
    /\ users = <<>>
    /\ mu = [writers |-> {}, readers |-> {}]
    /\ pc = [p \in Procs |-> "idle"]
    /\ args = [p \in Procs |-> NoArgs]
    /\ tx = [p \in Procs |-> ZeroRecord]
    /\ ret = [p \in Procs |-> NoRet]
    /\ clock = 1
    /\ nextId = 1
    /\ ncalls = 0
    /\ pre = [p \in Procs |-> EmptyLedger]
    /\ okCalls = [u \in UserIds \cup ServiceUserIds |-> {}]
    /\ usersV2 \in {NilUsers, MadeUsers}

\* SpecV2: one caller adds deposits and withdrawals to a LedgerStoreV2, the
\* clock standing still or moving on between them, and reads balances and pages
NextV2 ==
    \/ /\ ncalls < MaxSeed
       /\ \E t \in TransactionType, now \in QueryTimes :
            AddTransactionV2("p1", "u1", t, 1, "memo", now)
    \/ AddTransactionV2Return("p1")
    \/ \E u \in UserIds : GetBalanceV2("p1", u)
    \/ \E u \in UserIds, st \in TimeArgs, en \in TimeArgs, pg \in Pages,
          ps \in PageSizes :
         GetPaginatedTransactionsV2("p1", u, st, en, pg, ps)
    \/ ReadV2Return("p1")

SpecV2 == InitV2 /\ [][NextV2]_vars

\* the records the AddTransactionV2 calls on an account returned with no error,
\* in the order of the calls
RECURSIVE InCallOrder(_)
InCallOrder(calls) ==
    IF calls = {} THEN <<>>
    ELSE LET first == CHOOSE c \in calls : \A d \in calls : c.ID <= d.ID
         IN  <<[ID |-> first.ID, Amount |-> first.Amount, Type |-> first.Type,
                Timestamp |-> first.Timestamp, Description |-> first.Description]>>
             \o InCallOrder(calls \ {first})

AddedV2(userId) ==
    InCallOrder({c \in okCalls[userId] : c.op = "AddTransactionV2"})

\* the userLedger of LedgerStore after AddTransaction has stored the records one
\* after the other: balance adjusted, record appended, sequence sorted
RECURSIVE LedgerAfter(_, _)
LedgerAfter(ledger, records) ==
    IF records = <<>> THEN ledger
    ELSE LET r == Head(records)
         IN  LedgerAfter([transactions |-> SliceStable(Append(ledger.transactions, r)),
                          balance |-> AdjustBalance(ledger.balance, r.Type, r.Amount)],
                         Tail(records))

\* LedgerStore.users after the additions the LedgerStoreV2 has accepted
UsersAfterAdded ==
    [u \in {v \in UserIds : AddedV2(v) # <<>>} |->
        LedgerAfter(EmptyLedger, AddedV2(u))]

\* every record GetPaginatedTransactionsV2 can return for the account
HistoryV2(userId) ==
    IF ~ExistsV2(usersV2, userId) THEN <<>>
    ELSE LET tree == usersV2.entries[userId].tree
         IN  IterateTree(tree, InOrder(DOMAIN tree), NilTime, NilTime, <<>>)

\* a query neither store mishandles: no inverted range, a page size of at least
\* one and a page offset the machine int holds
PlainQuery(a) ==
    /\ ValidRange(a.startTime, a.endTime)
    /\ a.pageSize >= 1
    /\ FitsInt(Len(AddedV2(a.userId)), MaxOf(a.page, 1), a.pageSize)

\* what the V2 reads return is what LedgerStore returns after the same additions
SameAsLedgerStore ==
    \A p \in Procs :
        LET a == args[p]
        IN  /\ pc[p] = "b2_ret"
               => ret[p].balance = GetBalanceResult(UsersAfterAdded, a.userId).balance
            /\ (pc[p] = "g2_ret" /\ PlainQuery(a))
               => LET v1 == GetPaginatedTransactionsResult(UsersAfterAdded, a.userId,
                                a.startTime, a.endTime, a.page, a.pageSize)
                  IN  /\ ~ret[p].panicked /\ ~v1.panicked
                      /\ ret[p].TotalCount = v1.TotalCount
                      /\ ret[p].Transactions = v1.Transactions

\* the V2 store holds every accepted record, and its balance is their fold,
\* whenever every AddTransactionV2 call has returned
HoldsWhatItAccepted ==
    \A u \in UserIds :
        (\A p \in Procs : pc[p] # "a2_ret") =>
        /\ RangeOf(AddedV2(u)) \subseteq RangeOf(HistoryV2(u))
        /\ ExistsV2(usersV2, u)
           => usersV2.entries[u].balance = FoldBalance(HistoryV2(u))

\* C32: after every sequence of successful additions, also additions with the
\* same timestamp, LedgerStoreV2 returns the balance, the TotalCount and the
\* pages LedgerStore returns, every accepted record is in the V2 history and the
\* V2 balance is the fold over the V2 records.
TreeStoreEquivalent == SameAsLedgerStore /\ HoldsWhatItAccepted

\* no two accepted additions of an account have received the same timestamp
DistinctTimestamps ==
    \A u \in UserIds :
        \A i, j \in 1..Len(AddedV2(u)) :
            i # j => AddedV2(u)[i].Timestamp # AddedV2(u)[j].Timestamp

\* C32, for additions that have received different timestamps
TreeStoreEquivalentOnDistinctTimestamps ==
    DistinctTimestamps => TreeStoreEquivalent

\* three additions with different timestamps, read back as a second page
SecondPageOfThree ==
    /\ pc["p1"] = "g2_ret" /\ PlainQuery(args["p1"]) /\ DistinctTimestamps
    /\ Len(AddedV2("u1")) = 3
    /\ args["p1"].page = 2 /\ Len(ret["p1"].Transactions) = 1

====
